---------------------------- MODULE Spec2Model ----------------------------
(***************************************************************************)
(* Streaming decoders of watsonx-rs: WatsonxClient::generate_text_stream,  *)
(* perform_text_stream_generation, chat_completion_stream, the shared      *)
(* sse.rs decoders, and OrchestrateClient::stream_message /                *)
(* stream_chat_with_docs.                                                  *)
(*                                                                         *)
(* Text is a sequence of Unicode code points, a chunk a sequence of bytes. *)
(* String literals of the source are written as code point tuples with the *)
(* literal in a comment.                                                   *)
(***************************************************************************)
EXTENDS Integers, Sequences, FiniteSets, TLC

(***************************************************************************)
(* Characters and string primitives (Rust str / String operations)         *)
(***************************************************************************)
NL == 10
REPLACEMENT_CHARACTER == 65533

\* the literals the decoders compare against
S_data == <<100,97,116,97,58>>                                 \* "data:"
S_data_sp == <<100,97,116,97,58,32>>                           \* "data: "
S_id == <<105,100,58>>                                         \* "id:"
S_event == <<101,118,101,110,116,58>>                          \* "event:"
S_DONE == <<91,68,79,78,69,93>>                                \* "[DONE]"
K_results == <<114,101,115,117,108,116,115>>                   \* "results"
K_generated_text == <<103,101,110,101,114,97,116,101,100,95,116,101,120,116>>
K_choices == <<99,104,111,105,99,101,115>>                     \* "choices"
K_delta == <<100,101,108,116,97>>                              \* "delta"
K_message == <<109,101,115,115,97,103,101>>                    \* "message"
K_content == <<99,111,110,116,101,110,116>>                    \* "content"
K_event == <<101,118,101,110,116>>                             \* "event"
K_data == <<100,97,116,97>>                                    \* "data"
K_thread_id == <<116,104,114,101,97,100,95,105,100>>           \* "thread_id"
K_text == <<116,101,120,116>>                                  \* "text"
E_message_delta == <<109,101,115,115,97,103,101,46,100,101,108,116,97>>
E_message_created == <<109,101,115,115,97,103,101,46,99,114,101,97,116,101,100>>

\* char::is_whitespace, as far as str::trim sees it on these streams
IsWhitespace(c) == c \in {9, 10, 11, 12, 13, 32, 133, 160}

\* s[from..] and s[..to) with 0-based Rust indices
DropN(s, n) == SubSeq(s, n + 1, Len(s))
TakeN(s, n) == SubSeq(s, 1, n)

StartsWith(s, p) == Len(s) >= Len(p) /\ SubSeq(s, 1, Len(p)) = p

\* str::trim: from the first to the last character that is not whitespace
Trim(s) ==
    LET kept == {i \in 1..Len(s) : ~IsWhitespace(s[i])}
        lo == CHOOSE i \in kept : \A j \in kept : i <= j
        hi == CHOOSE i \in kept : \A j \in kept : i >= j
    IN  IF kept = {} THEN <<>> ELSE SubSeq(s, lo, hi)

\* str::find(c) / slice position: the 0-based index of the first c, or -1
Find(s, c) ==
    LET at == {i \in 1..Len(s) : s[i] = c}
    IN  IF at = {} THEN -1 ELSE (CHOOSE i \in at : \A j \in at : i <= j) - 1

\* str::find(pattern): 0-based index of the first occurrence, or -1
FindStr(s, p) ==
    LET at == {i \in 1..(Len(s) - Len(p) + 1) : SubSeq(s, i, i + Len(p) - 1) = p}
    IN  IF at = {} THEN -1 ELSE (CHOOSE i \in at : \A j \in at : i <= j) - 1

RECURSIVE Concat(_)
Concat(ss) == IF ss = <<>> THEN <<>> ELSE Head(ss) \o Concat(Tail(ss))

(***************************************************************************)
(* UTF-8 (one- and two-byte sequences; the streams use no longer ones)     *)
(***************************************************************************)
IsLead2(b) == b >= 194 /\ b <= 223
IsCont(b) == b >= 128 /\ b <= 191

\* what byte i of `bytes` decodes to: a code point, U+FFFD for an invalid
\* byte, or -1 for the second byte of a two-byte sequence
DecodedAt(bytes, i) ==
    IF bytes[i] < 128 THEN bytes[i]
    ELSE IF IsLead2(bytes[i]) /\ i < Len(bytes) /\ IsCont(bytes[i + 1])
        THEN (bytes[i] - 192) * 64 + (bytes[i + 1] - 128)
    ELSE IF IsCont(bytes[i]) /\ i > 1 /\ IsLead2(bytes[i - 1]) THEN -1
    ELSE REPLACEMENT_CHARACTER

IsChar(c) == c >= 0

\* String::from_utf8_lossy: every invalid byte becomes U+FFFD
from_utf8_lossy(bytes) ==
    SelectSeq([i \in 1..Len(bytes) |-> DecodedAt(bytes, i)], IsChar)

\* String::from_utf8: Ok exactly when no byte is invalid
from_utf8(bytes) ==
    [ok |-> \A i \in 1..Len(bytes) :
                bytes[i] >= 128 => DecodedAt(bytes, i) # REPLACEMENT_CHARACTER,
     s |-> from_utf8_lossy(bytes)]

(***************************************************************************)
(* serde_json, for the JSON the streams carry: objects, arrays, strings    *)
(* with the escapes \" \\ \/ \n \r \t, integers, true, false, null.        *)
(***************************************************************************)
JStr(s) == [t |-> "str", s |-> s]
JArr(a) == [t |-> "arr", a |-> a]
JObj(k, v) == [t |-> "obj", k |-> k, v |-> v]
JLit(s) == [t |-> "lit", s |-> s]
JAbsent == [t |-> "absent"]

JFail == [ok |-> FALSE, v |-> JAbsent, n |-> 0]
JOk(v, n) == [ok |-> TRUE, v |-> v, n |-> n]

JsonWs == {32, 9, 10, 13}

RECURSIVE SkipWs(_, _)
SkipWs(s, i) == IF i <= Len(s) /\ s[i] \in JsonWs THEN SkipWs(s, i + 1) ELSE i

Unescape(c) ==
    CASE c = 110 -> 10
      [] c = 114 -> 13
      [] c = 116 -> 9
      [] OTHER -> c

\* position j of a string that starts at i follows an odd run of backslashes
IsEscaped(s, i, j) ==
    LET m == CHOOSE m \in i..j :
                 /\ \A q \in m..(j - 1) : s[q] = 92
                 /\ m = i \/ s[m - 1] # 92
    IN  (j - m) % 2 = 1

\* the character of the string that position q contributes: none (-1) for
\* the backslash opening an escape, invalid (-2) for a control character or
\* an unknown escape
StringCharAt(s, i, q) ==
    IF IsEscaped(s, i, q)
        THEN IF s[q] \in {34, 92, 47, 110, 114, 116} THEN Unescape(s[q]) ELSE -2
    ELSE IF s[q] = 92 THEN -1
    ELSE IF s[q] < 32 THEN -2
    ELSE s[q]

\* the characters of the string between i and the closing quote at j
StringChars(s, i, j) == [q \in 1..(j - i) |-> StringCharAt(s, i, i + q - 1)]

StringOf(chars, n) ==
    IF \E q \in 1..Len(chars) : chars[q] = -2 THEN JFail
    ELSE JOk(JStr(SelectSeq(chars, IsChar)), n)

\* i is the position after the opening quote; the string ends at the first
\* quote that is not escaped
ParseStringBody(s, i) ==
    IF \A j \in i..Len(s) : s[j] # 34 \/ IsEscaped(s, i, j) THEN JFail
    ELSE StringOf(StringChars(s, i, CHOOSE j \in i..Len(s) :
                                      /\ s[j] = 34 /\ ~IsEscaped(s, i, j)
                                      /\ \A q \in i..(j - 1) :
                                            s[q] # 34 \/ IsEscaped(s, i, q)),
                  1 + CHOOSE j \in i..Len(s) :
                          /\ s[j] = 34 /\ ~IsEscaped(s, i, j)
                          /\ \A q \in i..(j - 1) : s[q] # 34 \/ IsEscaped(s, i, q))

IsDigit(c) == c >= 48 /\ c <= 57

RECURSIVE SkipDigits(_, _)
SkipDigits(s, i) == IF i <= Len(s) /\ IsDigit(s[i]) THEN SkipDigits(s, i + 1) ELSE i

ParseScalar(s, i) ==
    LET lit(w) == Len(s) >= i + Len(w) - 1 /\ SubSeq(s, i, i + Len(w) - 1) = w
        d == IF s[i] = 45 THEN i + 1 ELSE i
        e == SkipDigits(s, d)
    IN  IF lit(<<116,114,117,101>>) THEN JOk(JLit(<<116,114,117,101>>), i + 4)
        ELSE IF lit(<<102,97,108,115,101>>) THEN JOk(JLit(<<102,97,108,115,101>>), i + 5)
        ELSE IF lit(<<110,117,108,108>>) THEN JOk(JLit(<<110,117,108,108>>), i + 4)
        ELSE IF e > d /\ (e = d + 1 \/ s[d] # 48) THEN JOk(JLit(SubSeq(s, i, e - 1)), e)
        ELSE JFail

RECURSIVE ParseValue(_, _)
RECURSIVE ParseMembers(_, _, _, _, _)
RECURSIVE ParseElements(_, _, _, _)

ParseValue(s, i0) ==
    LET i == SkipWs(s, i0)
    IN  IF i > Len(s) THEN JFail
        ELSE IF s[i] = 34 THEN ParseStringBody(s, i + 1)
        ELSE IF s[i] = 123 THEN ParseMembers(s, SkipWs(s, i + 1), <<>>, <<>>, TRUE)
        ELSE IF s[i] = 91 THEN ParseElements(s, SkipWs(s, i + 1), <<>>, TRUE)
        ELSE ParseScalar(s, i)

\* i is at the first non-blank after "{" or ","
ParseMembers(s, i, ks, vs, first) ==
    IF i > Len(s) THEN JFail
    ELSE IF first /\ s[i] = 125 THEN JOk(JObj(ks, vs), i + 1)
    ELSE IF s[i] # 34 THEN JFail
    ELSE LET k == ParseStringBody(s, i + 1)
         IN  IF ~k.ok THEN JFail
             ELSE LET c == SkipWs(s, k.n)
                  IN  IF c > Len(s) \/ s[c] # 58 THEN JFail
                      ELSE LET v == ParseValue(s, c + 1)
                           IN  IF ~v.ok THEN JFail
                               ELSE LET e == SkipWs(s, v.n)
                                        ks2 == Append(ks, k.v.s)
                                        vs2 == Append(vs, v.v)
                                    IN  IF e > Len(s) THEN JFail
                                        ELSE IF s[e] = 44
                                            THEN ParseMembers(s, SkipWs(s, e + 1), ks2, vs2, FALSE)
                                        ELSE IF s[e] = 125 THEN JOk(JObj(ks2, vs2), e + 1)
                                        ELSE JFail

\* i is at the first non-blank after "[" or ","
ParseElements(s, i, vs, first) ==
    IF i > Len(s) THEN JFail
    ELSE IF first /\ s[i] = 93 THEN JOk(JArr(vs), i + 1)
    ELSE LET v == ParseValue(s, i)
         IN  IF ~v.ok THEN JFail
             ELSE LET e == SkipWs(s, v.n)
                      vs2 == Append(vs, v.v)
                  IN  IF e > Len(s) THEN JFail
                      ELSE IF s[e] = 44 THEN ParseElements(s, SkipWs(s, e + 1), vs2, FALSE)
                      ELSE IF s[e] = 93 THEN JOk(JArr(vs2), e + 1)
                      ELSE JFail

\* serde_json::from_str::<Value>: one value, then only blanks
from_str_Value(s) ==
    LET r == ParseValue(s, 1)
    IN  IF r.ok /\ SkipWs(s, r.n) = Len(s) + 1 THEN [ok |-> TRUE, v |-> r.v]
        ELSE [ok |-> FALSE, v |-> JAbsent]

\* Value::get(key) on an object: the last member of that name, else None
Get(v, key) ==
    IF v.t = "obj" /\ \E i \in 1..Len(v.k) : v.k[i] = key
        THEN v.v[CHOOSE i \in 1..Len(v.k) :
                    v.k[i] = key /\ \A j \in (i + 1)..Len(v.k) : v.k[j] # key]
        ELSE JAbsent

\* Options are sequences of length 0 or 1
None == <<>>
Some(x) == <<x>>

as_str(v) == IF v.t = "str" THEN Some(v.s) ELSE None
\* .and_then(|a| a.as_array()).first()
first_of_array(v) == IF v.t = "arr" /\ v.a # <<>> THEN v.a[1] ELSE JAbsent

(***************************************************************************)
(* Typed deserialisation                                                   *)
(***************************************************************************)
\* GenerationData: an object whose "results" is an array of objects that
\* each carry a string "generated_text"
typed_GenerationData(p, results) ==
    IF /\ p.ok
       /\ results.t = "arr"
       /\ \A i \in 1..Len(results.a) : as_str(Get(results.a[i], K_generated_text)) # None
        THEN [ok |-> TRUE,
              results |-> [i \in 1..Len(results.a) |-> Get(results.a[i], K_generated_text).s]]
        ELSE [ok |-> FALSE, results |-> <<>>]

results_of(p) == typed_GenerationData(p, Get(p.v, K_results))

\* serde_json::from_str::<GenerationData>
from_str_GenerationData(s) == results_of(from_str_Value(s))

\* EventData: an object with a string "event" and any "data"
typed_EventData(p) ==
    IF p.ok /\ as_str(Get(p.v, K_event)) # None /\ Get(p.v, K_data).t # "absent"
        THEN [ok |-> TRUE, event |-> Get(p.v, K_event).s, data |-> Get(p.v, K_data)]
        ELSE [ok |-> FALSE, event |-> <<>>, data |-> JAbsent]

\* serde_json::from_str::<EventData>
from_str_EventData(s) == typed_EventData(from_str_Value(s))

(***************************************************************************)
(* What one line does: the fragment it yields (pushed to the answer and    *)
(* passed to the callback), whether a warning is printed, the thread id it *)
(* carries, and whether the line was taken through an error branch.        *)
(***************************************************************************)
NoEffect ==
    [frag |-> None, warn |-> FALSE, tid |-> None, parse_failed |-> FALSE, utf8_failed |-> FALSE]

Fragment(text) == [NoEffect EXCEPT !.frag = Some(text)]
\* if let Some(text) = ....as_str() { push; callback }
FragmentIf(text) == [NoEffect EXCEPT !.frag = text]
ParseFailure(warned) == [NoEffect EXCEPT !.warn = warned, !.parse_failed = TRUE]

\* the "data:" / "data: " strip shared by the client.rs and sse.rs decoders
strip_data_prefix(trimmed) ==
    IF StartsWith(trimmed, S_data_sp) THEN DropN(trimmed, 6) ELSE DropN(trimmed, 5)

is_skipped_line(trimmed) ==
    trimmed = <<>> \/ StartsWith(trimmed, S_id) \/ StartsWith(trimmed, S_event)

is_empty(trimmed_data) == trimmed_data = <<>>

is_empty_or_done(trimmed_data) == trimmed_data = <<>> \/ trimmed_data = S_DONE

\* --- WatsonxClient::generate_text_stream / perform_text_stream_generation
\* match serde_json::from_str::<GenerationData>(json_data): the loop prints a
\* warning on Err, the code after the loop uses `if let Ok`
generation_parsed(data, in_loop) ==
    IF ~data.ok THEN ParseFailure(in_loop)
    ELSE IF data.results # <<>> THEN Fragment(data.results[1])
    ELSE NoEffect

generation_data(json_data, in_loop) ==
    IF is_empty_or_done(Trim(json_data)) THEN NoEffect
    ELSE generation_parsed(from_str_GenerationData(json_data), in_loop)

generation_record(trimmed, in_loop) ==
    IF in_loop /\ is_skipped_line(trimmed) THEN NoEffect
    ELSE IF ~StartsWith(trimmed, S_data) THEN NoEffect
    ELSE generation_data(strip_data_prefix(trimmed), in_loop)

generate_text_stream_line(line) == generation_record(Trim(line), TRUE)

generate_text_stream_rest(buffer) ==
    IF buffer = <<>> THEN NoEffect ELSE generation_record(Trim(buffer), FALSE)

\* --- WatsonxClient::chat_completion_stream (and parse_chat_completion_sse,
\* which repeats it): the loop reads delta, else message; the code after the
\* loop reads delta only
choice_content(delta, message, in_loop) ==
    IF delta.t # "absent" THEN FragmentIf(as_str(Get(delta, K_content)))
    ELSE IF in_loop /\ message.t # "absent" THEN FragmentIf(as_str(Get(message, K_content)))
    ELSE NoEffect

choice_text(choice, in_loop) ==
    choice_content(Get(choice, K_delta), Get(choice, K_message), in_loop)

chat_parsed(data, in_loop) ==
    IF ~data.ok THEN ParseFailure(FALSE)
    ELSE choice_text(first_of_array(Get(data.v, K_choices)), in_loop)

chat_data(json_data, in_loop) ==
    IF is_empty_or_done(Trim(json_data)) THEN NoEffect
    ELSE chat_parsed(from_str_Value(json_data), in_loop)

chat_record(trimmed, in_loop) ==
    IF in_loop /\ is_skipped_line(trimmed) THEN NoEffect
    ELSE IF ~StartsWith(trimmed, S_data) THEN NoEffect
    ELSE chat_data(strip_data_prefix(trimmed), in_loop)

chat_completion_stream_line(line) == chat_record(Trim(line), TRUE)

chat_completion_stream_rest(buffer) ==
    IF buffer = <<>> THEN NoEffect ELSE chat_record(Trim(buffer), FALSE)

parse_chat_completion_sse_line(line) == chat_record(Trim(line), TRUE)

parse_chat_completion_sse_rest(buffer) ==
    IF buffer = <<>> THEN NoEffect ELSE chat_record(Trim(buffer), FALSE)

\* --- sse.rs
extract_text_delta_only(generated_text, delta_content, message_content) ==
    IF generated_text # None THEN FragmentIf(generated_text)
    ELSE FragmentIf(delta_content)

extract_text(generated_text, delta_content, message_content) ==
    IF generated_text # None THEN FragmentIf(generated_text)
    ELSE IF delta_content # None THEN FragmentIf(delta_content)
    ELSE FragmentIf(message_content)

extract_from(result, choice) ==
    extract_text(as_str(Get(result, K_generated_text)),
                 as_str(Get(Get(choice, K_delta), K_content)),
                 as_str(Get(Get(choice, K_message), K_content)))

extract_text_from_json(data) ==
    extract_from(first_of_array(Get(data, K_results)), first_of_array(Get(data, K_choices)))

sse_parsed(data) ==
    IF ~data.ok THEN ParseFailure(TRUE) ELSE extract_text_from_json(data.v)

sse_data(trimmed_data) ==
    IF is_empty_or_done(trimmed_data) THEN NoEffect
    ELSE sse_parsed(from_str_Value(trimmed_data))

sse_record(trimmed) ==
    IF is_skipped_line(trimmed) THEN NoEffect
    ELSE IF ~StartsWith(trimmed, S_data) THEN NoEffect
    ELSE sse_data(Trim(strip_data_prefix(trimmed)))

parse_sse_line(line) == sse_record(Trim(line))

parse_sse_stream_rest(buffer) ==
    IF buffer = <<>> THEN NoEffect ELSE parse_sse_line(buffer)

\* --- OrchestrateClient::stream_message
\* data.delta.content[0].text when delta is an object, else data.content[0].text
agent_text(data_obj, delta) ==
    IF delta.t = "obj"
        THEN as_str(Get(first_of_array(Get(delta, K_content)), K_text))
        ELSE as_str(Get(first_of_array(Get(data_obj, K_content)), K_text))

agent_delta_text(data_obj) == agent_text(data_obj, Get(data_obj, K_delta))

\* the loop also reads the thread id of "message.created", the code after the
\* loop does not
agent_event(event_data, in_loop) ==
    IF ~event_data.ok THEN ParseFailure(FALSE)
    ELSE IF event_data.event = E_message_delta /\ event_data.data.t = "obj"
        THEN [NoEffect EXCEPT !.frag = agent_delta_text(event_data.data),
                              !.tid = as_str(Get(event_data.data, K_thread_id))]
    ELSE IF in_loop /\ event_data.event = E_message_created /\ event_data.data.t = "obj"
        THEN [NoEffect EXCEPT !.tid = as_str(Get(event_data.data, K_thread_id))]
    ELSE NoEffect

agent_trimmed(trimmed, in_loop) ==
    IF trimmed = <<>> THEN NoEffect
    ELSE agent_event(from_str_EventData(trimmed), in_loop)

agent_line(line, in_loop) ==
    IF ~line.ok THEN [NoEffect EXCEPT !.utf8_failed = TRUE]
    ELSE agent_trimmed(Trim(line.s), in_loop)

\* stream_message_line with String::from_utf8_lossy in place of String::from_utf8
stream_message_line_lossy(line_bytes) ==
    agent_line([ok |-> TRUE, s |-> from_utf8_lossy(line_bytes)], TRUE)

stream_message_line(line_bytes) == agent_line(from_utf8(line_bytes), TRUE)

stream_message_rest(buffer) ==
    IF buffer = <<>> THEN NoEffect ELSE agent_line(from_utf8(buffer), FALSE)

\* --- OrchestrateClient::stream_chat_with_docs
docs_delta(delta) ==
    IF delta.t = "obj"
        THEN FragmentIf(as_str(Get(first_of_array(Get(delta, K_content)), K_text)))
        ELSE NoEffect

docs_event(event_data) ==
    IF ~event_data.ok THEN ParseFailure(FALSE)
    ELSE IF event_data.event = E_message_delta /\ event_data.data.t = "obj"
        THEN docs_delta(Get(event_data.data, K_delta))
    ELSE NoEffect

stream_chat_with_docs_line(line) ==
    IF line = <<>> \/ ~StartsWith(line, S_data) THEN NoEffect
    ELSE docs_event(from_str_EventData(Trim(DropN(line, 5))))

\* stream_chat_with_docs returns right after the chunk loop
stream_chat_with_docs_rest(buffer) == NoEffect

(***************************************************************************)
(* Response bodies the server may stream (UTF-8 bytes)                     *)
(***************************************************************************)
\*   data: {"results":[{"generated_text":"é"}]} \n
\*   data: {"results":[{"generated_text":"b"}]} \n
Body_G1 ==
    <<100,97,116,97,58,32,123,34,114,101,115,117,108,116,115,34,58,91,123,34,
      103,101,110,101,114,97,116,101,100,95,116,101,120,116,34,58,34,195,169,34,
      125,93,125,10,100,97,116,97,58,32,123,34,114,101,115,117,108,116,115,34,
      58,91,123,34,103,101,110,101,114,97,116,101,100,95,116,101,120,116,34,58,
      34,98,34,125,93,125,10>>

\*   id: 1 \n
\*   event: message \n
\*   data:{"results":[{"generated_text":"a"}]} \n
\*    \n
\*   data: [DONE] \n
Body_G2 ==
    <<105,100,58,32,49,10,101,118,101,110,116,58,32,109,101,115,115,97,103,101,
      10,100,97,116,97,58,123,34,114,101,115,117,108,116,115,34,58,91,123,34,
      103,101,110,101,114,97,116,101,100,95,116,101,120,116,34,58,34,97,34,125,
      93,125,10,10,100,97,116,97,58,32,91,68,79,78,69,93,10>>

\*   data: {bad} \n
\*   data: {"results":[{"generated_text":"a"}]}   (no newline at the end)
Body_G3 ==
    <<100,97,116,97,58,32,123,98,97,100,125,10,100,97,116,97,58,32,123,34,
      114,101,115,117,108,116,115,34,58,91,123,34,103,101,110,101,114,97,116,101,
      100,95,116,101,120,116,34,58,34,97,34,125,93,125>>

\*   data: {"results":[{"generated_text":"a"}]} \n
\*   data: {bad   (no newline at the end)
Body_G4 ==
    <<100,97,116,97,58,32,123,34,114,101,115,117,108,116,115,34,58,91,123,34,
      103,101,110,101,114,97,116,101,100,95,116,101,120,116,34,58,34,97,34,125,
      93,125,10,100,97,116,97,58,32,123,98,97,100>>

\*   : ping \n
\*   data: {"other":"data"} \n
\*   data: {"results":[]} \n
Body_G5 ==
    <<58,32,112,105,110,103,10,100,97,116,97,58,32,123,34,111,116,104,101,114,
      34,58,34,100,97,116,97,34,125,10,100,97,116,97,58,32,123,34,114,101,
      115,117,108,116,115,34,58,91,93,125,10>>

\*   data: {"results":[{"generated_text":" "}]} \n
\*   data: {"results":[{"generated_text":"\n"}]} \n   (the JSON escape of a newline)
Body_G6 ==
    <<100,97,116,97,58,32,123,34,114,101,115,117,108,116,115,34,58,91,123,34,
      103,101,110,101,114,97,116,101,100,95,116,101,120,116,34,58,34,32,34,125,
      93,125,10,100,97,116,97,58,32,123,34,114,101,115,117,108,116,115,34,58,
      91,123,34,103,101,110,101,114,97,116,101,100,95,116,101,120,116,34,58,34,
      92,110,34,125,93,125,10>>

\*   data: {"results":[{"generated_text":"Answer: Paris is the capital.\nQuery: something else"}]} \n
Body_G7 ==
    <<100,97,116,97,58,32,123,34,114,101,115,117,108,116,115,34,58,91,123,34,
      103,101,110,101,114,97,116,101,100,95,116,101,120,116,34,58,34,65,110,115,
      119,101,114,58,32,80,97,114,105,115,32,105,115,32,116,104,101,32,99,97,
      112,105,116,97,108,46,92,110,81,117,101,114,121,58,32,115,111,109,101,116,
      104,105,110,103,32,101,108,115,101,34,125,93,125,10>>

\*   data: [DONE] \n
\*   data:[DONE] \n
\*   data:   [DONE] \n
\*   data: \n
\*   data:  \n   (a space after the colon)
\*   <TAB> \n
\*   data: {"results":[{"generated_text":"a"}]} \n
Body_G8 ==
    <<100,97,116,97,58,32,91,68,79,78,69,93,10,100,97,116,97,58,91,68,
      79,78,69,93,10,100,97,116,97,58,32,32,32,91,68,79,78,69,93,10,
      100,97,116,97,58,10,100,97,116,97,58,32,10,9,10,100,97,116,97,58,
      32,123,34,114,101,115,117,108,116,115,34,58,91,123,34,103,101,110,101,114,
      97,116,101,100,95,116,101,120,116,34,58,34,97,34,125,93,125,10>>

\*   data: {"results":[{"generated_text":"<FF>a"}]} \n   (<FF> is the byte 255, invalid in UTF-8)
Body_G9 ==
    <<100,97,116,97,58,32,123,34,114,101,115,117,108,116,115,34,58,91,123,34,
      103,101,110,101,114,97,116,101,100,95,116,101,120,116,34,58,34,255,97,34,
      125,93,125,10>>

\*   data: {"choices":[{"delta":{"content":"é"}}]} \n
\*   data: {"choices":[{"delta":{"content":"b"}}]} \n
\*   data: [DONE] \n
Body_K1 ==
    <<100,97,116,97,58,32,123,34,99,104,111,105,99,101,115,34,58,91,123,34,
      100,101,108,116,97,34,58,123,34,99,111,110,116,101,110,116,34,58,34,195,
      169,34,125,125,93,125,10,100,97,116,97,58,32,123,34,99,104,111,105,99,
      101,115,34,58,91,123,34,100,101,108,116,97,34,58,123,34,99,111,110,116,
      101,110,116,34,58,34,98,34,125,125,93,125,10,100,97,116,97,58,32,91,
      68,79,78,69,93,10>>

\*   data: {"choices":[{"message":{"content":"m"}}]}   (no newline at the end)
Body_K2 ==
    <<100,97,116,97,58,32,123,34,99,104,111,105,99,101,115,34,58,91,123,34,
      109,101,115,115,97,103,101,34,58,123,34,99,111,110,116,101,110,116,34,58,
      34,109,34,125,125,93,125>>

\*   data: {bad} \n
\*   data: {"choices":[{"message":{"content":"m"}}]} \n
\*   data: {"choices":[{"delta":{"content":"a"}}]}   (no newline at the end)
Body_K3 ==
    <<100,97,116,97,58,32,123,98,97,100,125,10,100,97,116,97,58,32,123,34,
      99,104,111,105,99,101,115,34,58,91,123,34,109,101,115,115,97,103,101,34,
      58,123,34,99,111,110,116,101,110,116,34,58,34,109,34,125,125,93,125,10,
      100,97,116,97,58,32,123,34,99,104,111,105,99,101,115,34,58,91,123,34,
      100,101,108,116,97,34,58,123,34,99,111,110,116,101,110,116,34,58,34,97,
      34,125,125,93,125>>

\*   data: {"choices":[]} \n
\*    \n
Body_K4 ==
    <<100,97,116,97,58,32,123,34,99,104,111,105,99,101,115,34,58,91,93,125,
      10,10>>

\*   data: {"choices":[{"delta":{"role":"a"},"message":{"content":"m"}}]} \n
Body_K5 ==
    <<100,97,116,97,58,32,123,34,99,104,111,105,99,101,115,34,58,91,123,34,
      100,101,108,116,97,34,58,123,34,114,111,108,101,34,58,34,97,34,125,44,
      34,109,101,115,115,97,103,101,34,58,123,34,99,111,110,116,101,110,116,34,
      58,34,109,34,125,125,93,125,10>>

\*   {"event":"message.created","data":{"thread_id":"t1"}} \n
\*   {"event":"message.delta","data":{"delta":{"content":[{"text":"é"}]}}} \n
Body_A1 ==
    <<123,34,101,118,101,110,116,34,58,34,109,101,115,115,97,103,101,46,99,114,
      101,97,116,101,100,34,44,34,100,97,116,97,34,58,123,34,116,104,114,101,
      97,100,95,105,100,34,58,34,116,49,34,125,125,10,123,34,101,118,101,110,
      116,34,58,34,109,101,115,115,97,103,101,46,100,101,108,116,97,34,44,34,
      100,97,116,97,34,58,123,34,100,101,108,116,97,34,58,123,34,99,111,110,
      116,101,110,116,34,58,91,123,34,116,101,120,116,34,58,34,195,169,34,125,
      93,125,125,125,10>>

\*   {"event":"message.delta","data":{"content":[{"text":"a"}],"thread_id":"t2"}} \n
\*   {"event":"message.created","data":{"thread_id":"t3"}}   (no newline at the end)
Body_A2 ==
    <<123,34,101,118,101,110,116,34,58,34,109,101,115,115,97,103,101,46,100,101,
      108,116,97,34,44,34,100,97,116,97,34,58,123,34,99,111,110,116,101,110,
      116,34,58,91,123,34,116,101,120,116,34,58,34,97,34,125,93,44,34,116,
      104,114,101,97,100,95,105,100,34,58,34,116,50,34,125,125,10,123,34,101,
      118,101,110,116,34,58,34,109,101,115,115,97,103,101,46,99,114,101,97,116,
      101,100,34,44,34,100,97,116,97,34,58,123,34,116,104,114,101,97,100,95,
      105,100,34,58,34,116,51,34,125,125>>

\*   {bad \n
\*   � \n
\*   {"event":"message.delta","data":{"delta":{"content":[{"text":"a"}]},"thread_id":"t1"}} \n
\*   {"event":"message.delta","data":{"delta":{"content":[{"text":"b"}]}}}   (no newline at the end)
Body_A3 ==
    <<123,98,97,100,10,195,10,123,34,101,118,101,110,116,34,58,34,109,101,115,
      115,97,103,101,46,100,101,108,116,97,34,44,34,100,97,116,97,34,58,123,
      34,100,101,108,116,97,34,58,123,34,99,111,110,116,101,110,116,34,58,91,
      123,34,116,101,120,116,34,58,34,97,34,125,93,125,44,34,116,104,114,101,
      97,100,95,105,100,34,58,34,116,49,34,125,125,10,123,34,101,118,101,110,
      116,34,58,34,109,101,115,115,97,103,101,46,100,101,108,116,97,34,44,34,
      100,97,116,97,34,58,123,34,100,101,108,116,97,34,58,123,34,99,111,110,
      116,101,110,116,34,58,91,123,34,116,101,120,116,34,58,34,98,34,125,93,
      125,125,125>>

\*   {"event":"run.step","data":{"content":[{"text":"a"}],"thread_id":"t9"}} \n
Body_A4 ==
    <<123,34,101,118,101,110,116,34,58,34,114,117,110,46,115,116,101,112,34,44,
      34,100,97,116,97,34,58,123,34,99,111,110,116,101,110,116,34,58,91,123,
      34,116,101,120,116,34,58,34,97,34,125,93,44,34,116,104,114,101,97,100,
      95,105,100,34,58,34,116,57,34,125,125,10>>

\*   {"event":"message.delta","data":{"delta":{"content":[{"text":"<FF>"}]}}} \n   (the byte 255)
\*   {"event":"message.delta","data":{"delta":{"content":[{"text":"b"}]}}} \n
Body_A5 ==
    <<123,34,101,118,101,110,116,34,58,34,109,101,115,115,97,103,101,46,100,101,
      108,116,97,34,44,34,100,97,116,97,34,58,123,34,100,101,108,116,97,34,
      58,123,34,99,111,110,116,101,110,116,34,58,91,123,34,116,101,120,116,34,
      58,34,255,34,125,93,125,125,125,10,123,34,101,118,101,110,116,34,58,34,
      109,101,115,115,97,103,101,46,100,101,108,116,97,34,44,34,100,97,116,97,
      34,58,123,34,100,101,108,116,97,34,58,123,34,99,111,110,116,101,110,116,
      34,58,91,123,34,116,101,120,116,34,58,34,98,34,125,93,125,125,125,10>>

\*   data: {"event":"message.delta","data":{"delta":{"content":[{"text":"é"}]}}} \n
\*   data: {"event":"message.delta","data":{"delta":{"content":[{"text":"b"}]}}}   (no newline at the end)
Body_D1 ==
    <<100,97,116,97,58,32,123,34,101,118,101,110,116,34,58,34,109,101,115,115,
      97,103,101,46,100,101,108,116,97,34,44,34,100,97,116,97,34,58,123,34,
      100,101,108,116,97,34,58,123,34,99,111,110,116,101,110,116,34,58,91,123,
      34,116,101,120,116,34,58,34,195,169,34,125,93,125,125,125,10,100,97,116,
      97,58,32,123,34,101,118,101,110,116,34,58,34,109,101,115,115,97,103,101,
      46,100,101,108,116,97,34,44,34,100,97,116,97,34,58,123,34,100,101,108,
      116,97,34,58,123,34,99,111,110,116,101,110,116,34,58,91,123,34,116,101,
      120,116,34,58,34,98,34,125,93,125,125,125>>


GenerationBodies ==
    {Body_G1, Body_G2, Body_G3, Body_G4, Body_G5, Body_G6, Body_G7, Body_G8, Body_G9}
ChatBodies == {Body_K1, Body_K2, Body_K3, Body_K4, Body_K5}
AgentBodies == {Body_A1, Body_A2, Body_A3, Body_A4, Body_A5}
DocsBodies == {Body_D1}

\* the longest chunk the transport delivers short of "all the rest"
MaxChunkLen == 8
\* the callback of the agent drivers may return Err on its n-th call, n up to
MaxFailAt == 2

(***************************************************************************)
(* The drivers                                                             *)
(***************************************************************************)
WatsonxDrivers == {"generate_with_config", "generate_text_stream", "chat_completion_stream"}
OrchestrateDrivers == {"stream_message", "stream_chat_with_docs"}
HttpDrivers == WatsonxDrivers \cup OrchestrateDrivers
\* sse.rs: decoders of a Response somebody else obtained
ResponseDrivers == {"parse_sse_stream", "parse_chat_completion_sse"}
Drivers == HttpDrivers \cup ResponseDrivers

BodiesOf(d) ==
    CASE d \in {"generate_with_config", "generate_text_stream"} -> GenerationBodies
      [] d \in {"chat_completion_stream", "parse_chat_completion_sse"} -> ChatBodies
      [] d = "parse_sse_stream" -> GenerationBodies \cup ChatBodies \cup DocsBodies
      [] d = "stream_message" -> AgentBodies
      [] d = "stream_chat_with_docs" -> DocsBodies
      [] OTHER -> {}

\* `endpoints` of chat_completion_stream and stream_chat_with_docs
NumEndpoints(d) ==
    CASE d = "chat_completion_stream" -> 2
      [] d = "stream_chat_with_docs" -> 4
      [] OTHER -> 1

\* the drivers that keep `answer`
KeepsAnswer(d) == d \notin OrchestrateDrivers

\* stream_message buffers bytes (Vec<u8>), the others text (String)
decode_chunk(d, chunk) ==
    IF d = "stream_message" THEN chunk ELSE from_utf8_lossy(chunk)

line_outcome(d, line) ==
    CASE d \in {"generate_with_config", "generate_text_stream"} -> generate_text_stream_line(line)
      [] d = "chat_completion_stream" -> chat_completion_stream_line(line)
      [] d = "parse_sse_stream" -> parse_sse_line(line)
      [] d = "parse_chat_completion_sse" -> parse_chat_completion_sse_line(line)
      [] d = "stream_message" -> stream_message_line(line)
      [] d = "stream_chat_with_docs" -> stream_chat_with_docs_line(line)

rest_outcome(d, buf) ==
    CASE d \in {"generate_with_config", "generate_text_stream"} -> generate_text_stream_rest(buf)
      [] d = "chat_completion_stream" -> chat_completion_stream_rest(buf)
      [] d = "parse_sse_stream" -> parse_sse_stream_rest(buf)
      [] d = "parse_chat_completion_sse" -> parse_chat_completion_sse_rest(buf)
      [] d = "stream_message" -> stream_message_rest(buf)
      [] d = "stream_chat_with_docs" -> stream_chat_with_docs_rest(buf)

(***************************************************************************)
(* Results                                                                 *)
(***************************************************************************)
NoResult == [kind |-> "None", text |-> <<>>, status |-> 0, body |-> "", thread_id |-> None]
Ok(text, tid) == [NoResult EXCEPT !.kind = "Ok", !.text = text, !.thread_id = tid]
AuthenticationError == [NoResult EXCEPT !.kind = "Authentication"]
NetworkError == [NoResult EXCEPT !.kind = "Network"]
TimeoutError == [NoResult EXCEPT !.kind = "Timeout"]
\* the error the callback itself returned
CallbackError == [NoResult EXCEPT !.kind = "Callback"]
ApiError(status, error_text) == [NoResult EXCEPT !.kind = "Api", !.status = status, !.body = error_text]
EmptyResponse == [NoResult EXCEPT !.kind = "Api", !.body = "empty response"]
AllEndpointsFailed == [NoResult EXCEPT !.kind = "Api", !.body = "All endpoint paths returned 404"]

is_success(status) == status >= 200 /\ status <= 299
ErrorStatuses == {404, 500}
\* response.text().await of an error response: the body, or a read failure
ErrorTexts == {[ok |-> TRUE, text |-> "not found"], [ok |-> FALSE, text |-> ""]}
error_text_of(t) == IF t.ok THEN t.text ELSE "Unknown error"

(***************************************************************************)
(* The decode loop, on the locals of one streaming call                    *)
(***************************************************************************)
\* deliver with the new fragment put in front of the earlier ones
deliver_front(d, cb, loc, text) ==
    LET cbs2 == IF cb.present THEN <<text>> \o loc.cbs ELSE loc.cbs
    IN  [loc EXCEPT !.answer = IF KeepsAnswer(d) THEN text \o @ ELSE @,
                    !.cbs = cbs2,
                    !.failed = cb.present /\ cb.fail_at = Len(cbs2)]

\* deliver with `answer = text` in place of `answer.push_str(text)`
deliver_replace(d, cb, loc, text) ==
    LET cbs2 == IF cb.present THEN Append(loc.cbs, text) ELSE loc.cbs
    IN  [loc EXCEPT !.answer = IF KeepsAnswer(d) THEN text ELSE @,
                    !.cbs = cbs2,
                    !.failed = cb.present /\ cb.fail_at = Len(cbs2)]

\* deliver with the Result of the callback dropped: callback(text) without `?`
deliver_unchecked(d, cb, loc, text) ==
    [loc EXCEPT !.answer = IF KeepsAnswer(d) THEN @ \o text ELSE @,
                !.cbs = IF cb.present THEN Append(@, text) ELSE @]

\* answer.push_str(text); callback(text)
deliver(d, cb, loc, text) ==
    LET cbs2 == IF cb.present THEN Append(loc.cbs, text) ELSE loc.cbs
    IN  [loc EXCEPT !.answer = IF KeepsAnswer(d) THEN @ \o text ELSE @,
                    !.cbs = cbs2,
                    !.failed = cb.present /\ cb.fail_at = Len(cbs2)]

\* apply_outcome with a parse failure ending the call
apply_outcome_abort(d, cb, loc, o) ==
    LET l1 == IF o.frag # None THEN deliver(d, cb, loc, o.frag[1]) ELSE loc
        l2 == IF o.warn THEN [l1 EXCEPT !.warnings = @ + 1] ELSE l1
    IN  IF o.parse_failed THEN [loc EXCEPT !.failed = TRUE]
        ELSE IF l1.failed THEN l1
        ELSE IF o.tid # None THEN [l2 EXCEPT !.new_thread_id = o.tid]
        ELSE l2

\* the body of the line loop after the line is classified
apply_outcome(d, cb, loc, o) ==
    LET l1 == IF o.frag # None THEN deliver(d, cb, loc, o.frag[1]) ELSE loc
        l2 == IF o.warn THEN [l1 EXCEPT !.warnings = @ + 1] ELSE l1
    IN  IF l1.failed THEN l1
        ELSE IF o.tid # None THEN [l2 EXCEPT !.new_thread_id = o.tid]
        ELSE l2

\* take_line with `buffer = buffer[newline_pos + 2..]`
take_line_skip(loc, newline_pos) ==
    [loc EXCEPT !.buffer = DropN(@, newline_pos + 2),
                !.lines = Append(@, TakeN(loc.buffer, newline_pos))]

\* let line = buffer[..newline_pos]; buffer = buffer[newline_pos + 1..]
take_line(loc, newline_pos) ==
    [loc EXCEPT !.buffer = DropN(@, newline_pos + 1),
                !.lines = Append(@, TakeN(loc.buffer, newline_pos))]

\* process_lines with `if let` in place of `while let`: one line per chunk
process_one_line(d, cb, loc) ==
    LET newline_pos == Find(loc.buffer, NL)
        l1 == take_line(loc, newline_pos)
    IN  IF loc.failed \/ newline_pos < 0 THEN loc
        ELSE apply_outcome(d, cb, l1, line_outcome(d, l1.lines[Len(l1.lines)]))

\* while let Some(newline_pos) = buffer.find('\n') { ... }
RECURSIVE process_lines(_, _, _)
process_lines(d, cb, loc) ==
    LET newline_pos == Find(loc.buffer, NL)
        l1 == take_line(loc, newline_pos)
    IN  IF loc.failed \/ newline_pos < 0 THEN loc
        ELSE process_lines(d, cb,
                 apply_outcome(d, cb, l1, line_outcome(d, l1.lines[Len(l1.lines)])))

\* on_chunk with `buffer = text` in place of `buffer.push_str(&text)`
on_chunk_no_carry(d, cb, loc, chunk) ==
    process_lines(d, cb,
        [loc EXCEPT !.buffer = decode_chunk(d, chunk),
                    !.received = @ \o decode_chunk(d, chunk)])

\* one iteration of `while let Some(chunk_result) = stream.next().await`
on_chunk(d, cb, loc, chunk) ==
    process_lines(d, cb,
        [loc EXCEPT !.buffer = @ \o decode_chunk(d, chunk),
                    !.received = @ \o decode_chunk(d, chunk)])

\* "Process any remaining data in buffer"
on_end(d, cb, loc) ==
    apply_outcome(d, cb, [loc EXCEPT !.flushed = TRUE], rest_outcome(d, loc.buffer))

\* the code after the chunk loop is not reached once the callback's error returned
finish(d, cb, loc) == IF loc.failed THEN loc ELSE on_end(d, cb, loc)

S_Answer == <<65,110,115,119,101,114,58>>                      \* "Answer:"
S_Query == <<81,117,101,114,121,58>>                           \* "Query:"

\* str::lines().next(): up to the first "\n", without a "\r" before it
first_line(s) ==
    LET n == Find(s, NL)
        l == IF n < 0 THEN s ELSE TakeN(s, n)
    IN  IF s = <<>> THEN None
        ELSE IF l # <<>> /\ l[Len(l)] = 13 THEN Some(TakeN(l, Len(l) - 1))
        ELSE Some(l)

\* clean_answer without the truncation at "Query:"
clean_answer_no_cut(answer) ==
    LET c0 == Trim(answer)
        c1 == IF StartsWith(c0, S_Answer) THEN Trim(DropN(c0, 7)) ELSE c0
    IN  Trim(IF first_line(c1) # None THEN first_line(c1)[1] ELSE c1)

\* clean_answer falling back on the trimmed answer when the clean-up leaves nothing
clean_answer_or_answer(answer) ==
    LET c0 == Trim(answer)
        c1 == IF StartsWith(c0, S_Answer) THEN Trim(DropN(c0, 7)) ELSE c0
        query_pos == FindStr(c1, S_Query)
        c2 == IF query_pos >= 0 THEN Trim(TakeN(c1, query_pos)) ELSE c1
        c3 == Trim(IF first_line(c2) # None THEN first_line(c2)[1] ELSE c2)
    IN  IF c3 = <<>> THEN c0 ELSE c3

\* perform_text_stream_generation: "Clean up the response"
clean_answer(answer) ==
    LET c0 == Trim(answer)
        c1 == IF StartsWith(c0, S_Answer) THEN Trim(DropN(c0, 7)) ELSE c0
        query_pos == FindStr(c1, S_Query)
        c2 == IF query_pos >= 0 THEN Trim(TakeN(c1, query_pos)) ELSE c1
    IN  Trim(IF first_line(c2) # None THEN first_line(c2)[1] ELSE c2)

\* final_result without `if answer.trim().is_empty() { return Err(..) }`
final_result_unchecked(d, loc) ==
    CASE d = "generate_with_config" -> Ok(clean_answer(loc.answer), None)
      [] d = "stream_message" ->
            IF loc.failed THEN CallbackError ELSE Ok(<<>>, loc.new_thread_id)
      [] d = "stream_chat_with_docs" ->
            IF loc.failed THEN CallbackError ELSE Ok(<<>>, None)
      [] OTHER -> Ok(loc.answer, None)

\* what the call returns once the stream has ended
final_result(d, loc) ==
    CASE d = "generate_text_stream" ->
            IF Trim(loc.answer) = <<>> THEN EmptyResponse ELSE Ok(loc.answer, None)
      [] d = "generate_with_config" ->
            IF Trim(loc.answer) = <<>> THEN EmptyResponse ELSE Ok(clean_answer(loc.answer), None)
      [] d = "chat_completion_stream" ->
            IF Trim(loc.answer) = <<>> THEN EmptyResponse ELSE Ok(loc.answer, None)
      [] d \in ResponseDrivers -> Ok(loc.answer, None)
      [] d = "stream_message" ->
            IF loc.failed THEN CallbackError ELSE Ok(<<>>, loc.new_thread_id)
      [] d = "stream_chat_with_docs" ->
            IF loc.failed THEN CallbackError ELSE Ok(<<>>, None)

\* the locals at the start of the chunk loop
start_locals(tid) ==
    [buffer |-> <<>>, answer |-> <<>>, cbs |-> <<>>, lines |-> <<>>, received |-> <<>>,
     warnings |-> 0, new_thread_id |-> tid, failed |-> FALSE, flushed |-> FALSE]

\* the call on a response whose whole body b arrives as a single chunk
whole_stream(d, cb, tid, b) == finish(d, cb, on_chunk(d, cb, start_locals(tid), b))

(***************************************************************************)
(* State                                                                   *)
(***************************************************************************)
VARIABLES
    client,             \* the client object: "WatsonxClient" or "OrchestrateClient"
    access_token,       \* its access_token: "None" or "Some"
    current_model,      \* the current_model of a WatsonxClient
    pc,                 \* where the one call is: "idle", "sending", "streaming", "done"
    driver,             \* the streaming function called
    callback,           \* its callback argument: [present, fail_at]
    thread_id,          \* its thread_id argument (stream_message)
    endpoint,           \* index of the endpoint being tried
    requests,           \* HTTP requests issued by the call
    last_error,         \* chat_completion_stream's last_error
    responses,          \* how many responses the call has received
    response,           \* the last of them: [status, text]
    body,               \* the bytes of the 2xx response being streamed
    pos,                \* how many of them have arrived
    loc,                \* the locals of the chunk loop (start_locals)
    split_char,         \* history: a chunk ended inside a two-byte character
    expired,            \* config.timeout has elapsed since the call began
    result,             \* what the call returned
    batch_requests,     \* generate_batch: its `requests` argument
    tasks,              \* generate_batch: the spawned tasks, in spawn order
    completion_order,   \* history: the tasks in the order they ended
    batch_result,       \* what generate_batch returned
    error,              \* an Error value
    retryable,          \* what error.is_retryable() returned, once called
    user_action,        \* what error.requires_user_action() returned, once called
    config,             \* a GenerationConfig or ChatCompletionConfig being built
    argument            \* the argument of the last with_max_tokens call on it

vars == <<client, access_token, current_model, pc, driver, callback, thread_id, endpoint, requests,
          last_error, responses, response, body, pos, loc, split_char, expired, result,
          batch_requests, tasks, completion_order, batch_result,
          error, retryable, user_action, config, argument>>

client_vars == <<client, access_token, current_model>>
call_vars == <<driver, callback, thread_id>>
http_vars == <<responses, response>>
timer_vars == <<expired>>
batch_vars == <<batch_requests, tasks, completion_order, batch_result>>
value_vars == <<error, retryable, user_action, config, argument>>

\* models.rs: the model of a new WatsonxClient and of a default config
DEFAULT_MODEL == "ibm/granite-4-h-small"

NoError == [kind |-> "None", status |-> 0, message |-> ""]
NoConfig == [type |-> "None", model_id |-> "", timeout |-> 0, max_tokens |-> 0]

NoBatchResult == [kind |-> "None", results |-> <<>>, total |-> 0, successful |-> 0, failed |-> 0]

NoResponse == [status |-> 0, text |-> [ok |-> TRUE, text |-> ""]]

\* WatsonxClient::new, OrchestrateClient::new: access_token: None
Init ==
    /\ client \in {"WatsonxClient", "OrchestrateClient"}
    /\ access_token = "None"
    /\ current_model = DEFAULT_MODEL
    /\ pc = "idle"
    /\ driver = "none"
    /\ callback = [present |-> FALSE, fail_at |-> 0]
    /\ thread_id = None
    /\ endpoint = 0
    /\ requests = 0
    /\ last_error = NoResult
    /\ responses = 0
    /\ response = NoResponse
    /\ body = <<>>
    /\ pos = 0
    /\ loc = start_locals(None)
    /\ split_char = FALSE
    /\ expired = FALSE
    /\ result = NoResult
    /\ batch_requests = <<>>
    /\ tasks = <<>>
    /\ completion_order = <<>>
    /\ batch_result = NoBatchResult
    /\ error = NoError
    /\ retryable = None
    /\ user_action = None
    /\ config = NoConfig
    /\ argument = None

\* the callbacks a driver can be given: only parse_sse_stream takes an Option,
\* generate_with_config has none, and only the agent callbacks return a Result
CallbacksOf(d) ==
    CASE d = "generate_with_config" -> {[present |-> FALSE, fail_at |-> 0]}
      [] d = "parse_sse_stream" -> {[present |-> p, fail_at |-> 0] : p \in BOOLEAN}
      [] d \in OrchestrateDrivers -> {[present |-> TRUE, fail_at |-> n] : n \in 0..MaxFailAt}
      [] OTHER -> {[present |-> TRUE, fail_at |-> 0]}

T0 == <<116,48>>                                               \* "t0"
ThreadIdsOf(d) == IF d = "stream_message" THEN {None, Some(T0)} ELSE {None}

\* the streaming functions of each client; sse.rs decodes WatsonX responses
DriversOf(c) == IF c = "WatsonxClient" THEN WatsonxDrivers ELSE OrchestrateDrivers
DecodersOf(c) == IF c = "WatsonxClient" THEN ResponseDrivers ELSE {}

(***************************************************************************)
(* Actions                                                                 *)
(***************************************************************************)
\* WatsonxClient::connect: the token is stored only when the exchange succeeds
connect ==
    /\ pc = "idle"
    /\ client = "WatsonxClient"
    /\ \E exchanged \in BOOLEAN :
         access_token' = IF exchanged THEN "Some" ELSE access_token
    /\ UNCHANGED <<client, current_model, timer_vars, batch_vars, value_vars, pc, call_vars, endpoint, requests,
                   last_error, http_vars, body, pos, loc, split_char, result>>

\* OrchestrateClient::set_token / with_token
set_token ==
    /\ pc = "idle"
    /\ client = "OrchestrateClient"
    /\ access_token' = "Some"
    /\ UNCHANGED <<client, current_model, timer_vars, batch_vars, value_vars, pc, call_vars, endpoint, requests,
                   last_error, http_vars, body, pos, loc, split_char, result>>

\* start_call without the `self.access_token.as_ref().ok_or_else(..)?`
start_call_unchecked(d, cb, tid) ==
    /\ pc = "idle"
    /\ driver' = d
    /\ callback' = cb
    /\ thread_id' = tid
    /\ loc' = start_locals(tid)
    /\ pc' = "sending"
    /\ endpoint' = 1
    /\ requests' = 1
    /\ UNCHANGED <<client_vars, timer_vars, batch_vars, value_vars, last_error, http_vars, body, pos, split_char, result>>

\* entry of a driver up to its first .send(): the token check
start_call(d, cb, tid) ==
    /\ pc = "idle"
    /\ driver' = d
    /\ callback' = cb
    /\ thread_id' = tid
    /\ loc' = start_locals(tid)
    /\ IF access_token = "None"
         THEN /\ pc' = "done"
              /\ result' = AuthenticationError
              /\ UNCHANGED <<endpoint, requests>>
         ELSE /\ pc' = "sending"
              /\ endpoint' = 1
              /\ requests' = 1
              /\ UNCHANGED result
    /\ UNCHANGED <<client_vars, timer_vars, batch_vars, value_vars, last_error, http_vars, body, pos, split_char>>

\* parse_sse_stream / parse_chat_completion_sse are handed a Response
start_decode(d, cb, b) ==
    /\ pc = "idle"
    /\ driver' = d
    /\ callback' = cb
    /\ thread_id' = None
    /\ loc' = start_locals(None)
    /\ pc' = "streaming"
    /\ body' = b
    /\ pos' = 0
    /\ UNCHANGED <<client_vars, timer_vars, batch_vars, value_vars, endpoint, requests, last_error, http_vars, split_char,
                   result>>

\* `continue` of the endpoint loop, or the return after the last endpoint
next_endpoint(err, exhausted) ==
    IF endpoint < NumEndpoints(driver)
        THEN /\ endpoint' = endpoint + 1
             /\ requests' = requests + 1
             /\ last_error' = err
             /\ UNCHANGED <<pc, result>>
        ELSE /\ pc' = "done"
             /\ result' = exhausted
             /\ last_error' = err
             /\ UNCHANGED <<endpoint, requests>>

return_error(err) ==
    /\ pc' = "done"
    /\ result' = err
    /\ UNCHANGED <<endpoint, requests, last_error>>

\* .send().await fails
send_error ==
    /\ pc = "sending"
    /\ IF driver = "chat_completion_stream"
         THEN next_endpoint(NetworkError, NetworkError)
         ELSE return_error(NetworkError)
    /\ UNCHANGED <<client_vars, timer_vars, batch_vars, value_vars, call_vars, http_vars, body, pos, loc, split_char>>

\* response_failure with every driver going on to its next request
response_failure_retry(status, t) ==
    /\ pc = "sending"
    /\ ~is_success(status)
    /\ requests' = requests + 1
    /\ last_error' = ApiError(status, error_text_of(t))
    /\ responses' = responses + 1
    /\ response' = [status |-> status, text |-> t]
    /\ UNCHANGED <<client_vars, timer_vars, batch_vars, value_vars, call_vars, pc, endpoint, result, body, pos, loc, split_char>>

\* the response has a non-2xx status
response_failure(status, t) ==
    /\ pc = "sending"
    /\ ~is_success(status)
    /\ CASE driver = "chat_completion_stream" ->
              next_endpoint(ApiError(status, error_text_of(t)),
                            ApiError(status, error_text_of(t)))
         [] driver = "stream_chat_with_docs" ->
              next_endpoint(last_error, AllEndpointsFailed)
         [] OTHER -> return_error(ApiError(status, error_text_of(t)))
    /\ responses' = responses + 1
    /\ response' = [status |-> status, text |-> t]
    /\ UNCHANGED <<client_vars, timer_vars, batch_vars, value_vars, call_vars, body, pos, loc, split_char>>

\* the response has a 2xx status: response.bytes_stream()
response_success(b) ==
    /\ pc = "sending"
    /\ pc' = "streaming"
    /\ body' = b
    /\ pos' = 0
    /\ responses' = responses + 1
    /\ response' = [NoResponse EXCEPT !.status = 200]
    /\ UNCHANGED <<client_vars, timer_vars, batch_vars, value_vars, call_vars, endpoint, requests, last_error, loc, split_char,
                   result>>

\* byte i of b is the first byte of a two-byte character
ends_inside_char(b, i) == i < Len(b) /\ IsLead2(b[i]) /\ IsCont(b[i + 1])

\* stream.next().await yields Some(Ok(chunk)) with the next n bytes
recv_chunk(n) ==
    /\ pc = "streaming"
    /\ pos + n <= Len(body)
    /\ pos' = pos + n
    /\ loc' = on_chunk(driver, callback, loc, SubSeq(body, pos + 1, pos + n))
    /\ split_char' = (split_char \/ ends_inside_char(body, pos + n))
    /\ IF loc'.failed
         THEN pc' = "done" /\ result' = CallbackError
         ELSE UNCHANGED <<pc, result>>
    /\ UNCHANGED <<client_vars, timer_vars, batch_vars, value_vars, call_vars, endpoint, requests, last_error, http_vars, body>>

\* chunk_error with chat_completion_stream going on to its next endpoint
chunk_error_falling_back ==
    /\ pc = "streaming"
    /\ IF driver = "chat_completion_stream" /\ endpoint < NumEndpoints(driver)
         THEN /\ pc' = "sending"
              /\ endpoint' = endpoint + 1
              /\ requests' = requests + 1
              /\ last_error' = NetworkError
              /\ UNCHANGED result
         ELSE return_error(NetworkError)
    /\ UNCHANGED <<client_vars, timer_vars, batch_vars, value_vars, call_vars, http_vars, body,
                   pos, loc, split_char>>

\* chunk_error with the rest of the buffer processed before the return
chunk_error_flushing ==
    /\ pc = "streaming"
    /\ pc' = "done"
    /\ loc' = on_end(driver, callback, loc)
    /\ result' = NetworkError
    /\ UNCHANGED <<client_vars, timer_vars, batch_vars, value_vars, call_vars, endpoint, requests, last_error, http_vars, body,
                   pos, split_char>>

\* stream.next().await yields Some(Err(e))
chunk_error ==
    /\ pc = "streaming"
    /\ pc' = "done"
    /\ result' = NetworkError
    /\ UNCHANGED <<client_vars, timer_vars, batch_vars, value_vars, call_vars, endpoint, requests, last_error, http_vars, body,
                   pos, loc, split_char>>

\* config.timeout elapses while the call waits for the response or for a
\* chunk: tokio::time::timeout around perform_text_stream_generation returns
\* Err(Elapsed); the other calls are not wrapped
timeout_elapses ==
    /\ pc \in {"sending", "streaming"}
    /\ driver \in WatsonxDrivers
    /\ ~expired
    /\ expired' = TRUE
    /\ IF driver = "generate_with_config"
         THEN pc' = "done" /\ result' = TimeoutError
         ELSE UNCHANGED <<pc, result>>
    /\ UNCHANGED <<client_vars, batch_vars, value_vars, call_vars, endpoint, requests,
                   last_error, http_vars, body, pos, loc, split_char>>

\* stream.next().await yields None: the rest of the buffer, then the return
end_of_stream ==
    /\ pc = "streaming"
    /\ pos = Len(body)
    /\ loc' = on_end(driver, callback, loc)
    /\ pc' = "done"
    /\ result' = final_result(driver, loc')
    /\ UNCHANGED <<client_vars, timer_vars, batch_vars, value_vars, call_vars, endpoint, requests, last_error, http_vars, body,
                   pos, split_char>>

ChunkLens == {n \in 1..(Len(body) - pos) : n <= MaxChunkLen \/ n = Len(body) - pos}

Next ==
    \/ connect
    \/ set_token
    \/ \E d \in DriversOf(client) : \E cb \in CallbacksOf(d) : \E tid \in ThreadIdsOf(d) :
         start_call(d, cb, tid)
    \/ \E d \in DecodersOf(client) : \E cb \in CallbacksOf(d) : \E b \in BodiesOf(d) :
         start_decode(d, cb, b)
    \/ send_error
    \/ \E status \in ErrorStatuses : \E t \in ErrorTexts : response_failure(status, t)
    \/ \E b \in BodiesOf(driver) : response_success(b)
    \/ \E n \in ChunkLens : recv_chunk(n)
    \/ chunk_error
    \/ timeout_elapses
    \/ end_of_stream

Spec == Init /\ [][Next]_vars

(***************************************************************************)
(* Chunk-boundary invariance                                               *)
(***************************************************************************)
\* the call ran to the end of the response body
stream_ended == pc = "done" /\ body # <<>> /\ pos = Len(body) /\ result.kind \in {"Ok", "Api"}

\* C1: in generate_text_stream, chat_completion_stream and parse_sse_stream,
\* however the stream is split into chunks, the fragments passed to the
\* callback are those of the whole stream arriving as a single chunk.
C1_ChunkInvariance ==
    (stream_ended /\ driver \in {"generate_text_stream", "chat_completion_stream",
                                 "parse_sse_stream"})
        => loc.cbs = whole_stream(driver, callback, thread_id, body).cbs

\* C2: in stream_message, however the stream is split into chunks, the texts
\* passed to the callback and the value returned (the thread id, or the
\* callback's error) are those of the whole stream arriving as a single chunk.
C2_AgentChunkInvariance ==
    (pc = "done" /\ driver = "stream_message" /\ result.kind \in {"Ok", "Callback"})
        => /\ loc.cbs = whole_stream(driver, callback, thread_id, body).cbs
           /\ result = final_result(driver, whole_stream(driver, callback, thread_id, body))

\* a stream_message call over a stream that was split inside "é" delivered "é"
\* and returned the thread id of the stream
C2_Witness ==
    /\ pc = "done" /\ driver = "stream_message" /\ split_char
    /\ result.kind = "Ok" /\ result.thread_id # thread_id
    /\ loc.cbs = <<<<233>>>>

(***************************************************************************)
(* Reassembly and delivery                                                 *)
(***************************************************************************)
\* the lines extracted so far, each followed by its newline
lines_with_newlines(lines) == Concat([i \in 1..Len(lines) |-> Append(lines[i], NL)])

\* the fragments of the lines extracted so far, in the order of the lines
line_fragments(d, lines) == Concat([i \in 1..Len(lines) |-> line_outcome(d, lines[i]).frag])

\* the fragment of the unterminated rest, once the stream has ended
rest_fragment(d, l) == IF l.flushed THEN rest_outcome(d, l.buffer).frag ELSE <<>>

\* C3: at every point of a streaming decode, the lines extracted so far (each
\* followed by its newline) followed by the buffer are exactly the decoded
\* chunks received so far; for the byte buffer of stream_message these are the
\* bytes of the body received so far.
C3_NoLossNoDuplication ==
    pc \in {"streaming", "done"} =>
        /\ lines_with_newlines(loc.lines) \o loc.buffer = loc.received
        /\ driver = "stream_message" => loc.received = SubSeq(body, 1, pos)

\* in the middle of a stream: two lines extracted, a partial line in the buffer
C3_Witness ==
    /\ pc = "streaming" /\ pos < Len(body)
    /\ Len(loc.lines) >= 2 /\ loc.buffer # <<>>

\* C4: the callback is called once per extracted fragment and its arguments,
\* in order, are the fragments of the data lines in the order the lines occur
\* in the stream (the unterminated rest last); with no callback nothing is
\* delivered. Each call happens inside one step of the one sequential loop.
C4_OrderedDelivery ==
    pc \in {"streaming", "done"} =>
        loc.cbs = IF callback.present
                    THEN line_fragments(driver, loc.lines) \o rest_fragment(driver, loc)
                    ELSE <<>>

\* chat_completion_stream delivered "m" from a terminated line and then "a"
\* from the unterminated rest
C4_Witness ==
    /\ pc = "done" /\ driver = "chat_completion_stream" /\ loc.flushed
    /\ loc.cbs = <<<<109>>, <<97>>>>
    /\ rest_fragment(driver, loc) = <<<<97>>>>

(***************************************************************************)
(* The accumulated answer                                                  *)
(***************************************************************************)
IsPrefix(s, t) == Len(s) <= Len(t) /\ SubSeq(t, 1, Len(s)) = s

AnswerDrivers == {"generate_text_stream", "chat_completion_stream", "parse_sse_stream"}

\* C5 as stated: in every state of a generate_text_stream, chat_completion_stream
\* or parse_sse_stream call the answer is the concatenation of the fragments
\* already passed to the callback.
C5_AnswerIsCallbackFragments ==
    (driver \in AnswerDrivers /\ pc \in {"streaming", "done"})
        => loc.answer = Concat(loc.cbs)

\* C5, amended: in every state of such a call the answer is the concatenation,
\* in order, of the fragments extracted so far, which are the fragments passed
\* to the callback when there is one (parse_sse_stream may be given none);
\* every step only extends the answer and the delivered fragments; and the
\* text chat_completion_stream returns is the answer itself.
C5_AppendOnlyAnswer ==
    [][(driver' \in AnswerDrivers /\ pc' \in {"streaming", "done"}) =>
          /\ loc'.answer = Concat(line_fragments(driver', loc'.lines)
                                    \o rest_fragment(driver', loc'))
          /\ callback'.present => loc'.answer = Concat(loc'.cbs)
          /\ pc = "streaming" => /\ IsPrefix(loc.answer, loc'.answer)
                                 /\ IsPrefix(loc.cbs, loc'.cbs)
          /\ (driver' = "chat_completion_stream" /\ result'.kind = "Ok")
                => result'.text = loc'.answer]_vars

\* chat_completion_stream returned "ma", the two fragments it delivered
C5_Witness ==
    /\ pc = "done" /\ driver = "chat_completion_stream" /\ result.kind = "Ok"
    /\ Len(loc.cbs) = 2 /\ result.text = <<109, 97>>

(***************************************************************************)
(* The end of the stream                                                   *)
(***************************************************************************)
FlushDrivers == {"generate_text_stream", "chat_completion_stream", "stream_message",
                 "stream_chat_with_docs", "parse_chat_completion_sse"}

\* the stream ends here with an unterminated last record in the buffer
ends_unterminated ==
    /\ pc = "streaming" /\ pc' = "done" /\ loc'.flushed
    /\ driver \in FlushDrivers /\ loc.buffer # <<>>

\* C6: when the stream ends with an unterminated last record, the fragments
\* delivered and the thread id returned are those of the same stream with a
\* newline appended, i.e. of one more chunk "\n" and then the end.
C6_FlushAsLine ==
    [][ends_unterminated =>
          /\ loc'.cbs = finish(driver, callback, on_chunk(driver, callback, loc, <<NL>>)).cbs
          /\ result'.thread_id =
               final_result(driver,
                   finish(driver, callback, on_chunk(driver, callback, loc, <<NL>>))).thread_id
       ]_vars

(***************************************************************************)
(* Malformed lines                                                         *)
(***************************************************************************)
\* the lines extracted so far whose payload failed to parse
failed_lines(d, lines) == {i \in 1..Len(lines) : line_outcome(d, lines[i]).parse_failed}

\* the answer the fragments of all the lines (and of the rest) form
fragments_answer(d, l) == Concat(line_fragments(d, l.lines) \o rest_fragment(d, l))

\* C7: a line that fails to parse yields no fragment and ends nothing: a call
\* that stops before the end of the stream stopped on a transport error, on
\* the error its own callback returned or on its deadline; otherwise every terminated line
\* received has been processed, the callback has the fragments of all the
\* lines in order, and at the end generate_text_stream, generate_with_config
\* and chat_completion_stream succeed exactly when those fragments form a
\* non-empty answer (the other decoders succeed in any case).
C7_MalformedLinesSkipped ==
    /\ (pc = "done" /\ body # <<>> /\ ~loc.flushed) =>
          \/ result.kind = "Network"
          \/ /\ result.kind = "Callback"
             /\ callback.fail_at > 0 /\ Len(loc.cbs) = callback.fail_at
          \/ result.kind = "Timeout" /\ expired /\ driver = "generate_with_config"
    /\ (pc \in {"streaming", "done"} /\ ~loc.failed) =>
          /\ Find(loc.buffer, NL) < 0
          /\ \A i \in failed_lines(driver, loc.lines) :
                line_outcome(driver, loc.lines[i]).frag = None
          /\ callback.present =>
                loc.cbs = line_fragments(driver, loc.lines) \o rest_fragment(driver, loc)
    /\ (pc = "done" /\ loc.flushed /\ ~loc.failed) =>
          CASE driver \in {"generate_text_stream", "chat_completion_stream"} ->
                 result = IF Trim(fragments_answer(driver, loc)) # <<>>
                            THEN Ok(fragments_answer(driver, loc), None)
                            ELSE EmptyResponse
            [] driver = "generate_with_config" ->
                 result = IF Trim(fragments_answer(driver, loc)) # <<>>
                            THEN Ok(clean_answer(fragments_answer(driver, loc)), None)
                            ELSE EmptyResponse
            [] OTHER -> result.kind = "Ok"

\* generate_text_stream skipped a malformed data line, delivered "a" from the
\* line after it and returned "a"
C7_Witness ==
    /\ pc = "done" /\ driver = "generate_text_stream"
    /\ failed_lines(driver, loc.lines) # {}
    /\ loc.cbs = <<<<97>>>>
    /\ result = Ok(<<97>>, None)

\* C8: every line skipped because its payload failed to parse, the final
\* unterminated line included, has printed a warning.
C8_ParseFailuresWarned ==
    pc \in {"streaming", "done"} =>
        loc.warnings = Cardinality(failed_lines(driver, loc.lines))
                       + (IF loc.flushed /\ rest_outcome(driver, loc.buffer).parse_failed
                            THEN 1 ELSE 0)

(***************************************************************************)
(* Errors before the stream                                                *)
(***************************************************************************)
\* C9: a call of generate_with_config (which is also all of generate),
\* generate_text_stream, chat_completion_stream, stream_message or
\* stream_chat_with_docs on a client that holds no access token has returned
\* the Authentication error with no request issued and no callback call.
C9_AuthenticationFailFast ==
    (driver \in HttpDrivers /\ access_token = "None") =>
        /\ pc = "done"
        /\ result = AuthenticationError
        /\ requests = 0 /\ responses = 0
        /\ loc.cbs = <<>>

\* stream_message was called on a client constructed without a token
C9_Witness ==
    /\ driver = "stream_message" /\ access_token = "None"
    /\ callback.present /\ result.kind = "Authentication"

\* the step on which the call receives a response with a non-2xx status
receives_failure == responses' = responses + 1 /\ ~is_success(response'.status)

\* the Api error made of the status and body of the response just received
api_error_received == ApiError(response'.status, error_text_of(response'.text))

\* the step ends the call with that status and body; nothing was delivered
\* and no request is added
ends_with_api_error ==
    /\ pc' = "done"
    /\ result' = api_error_received
    /\ requests' = requests
    /\ loc'.cbs = <<>>

\* C10 as stated: in generate_text_stream, chat_completion_stream and
\* stream_message a response with a non-2xx status ends the call with an Api
\* error carrying that status and body, no callback call and no further
\* request.
C10_FailureIsTerminal ==
    [][(receives_failure /\ driver \in {"generate_text_stream", "chat_completion_stream",
                                         "stream_message"})
          => ends_with_api_error]_vars

\* C10, amended: that holds for generate_text_stream, generate_with_config
\* and stream_message. chat_completion_stream keeps the Api error as
\* last_error and sends a further request to its next endpoint; only the
\* response of the last endpoint ends the call, with the Api error of that
\* last response. The callback is not called in either case.
C10_FailureTerminalOrNextEndpoint ==
    [][receives_failure =>
          CASE driver \in {"generate_text_stream", "generate_with_config", "stream_message"} ->
                 ends_with_api_error
            [] driver = "chat_completion_stream" ->
                 IF endpoint < NumEndpoints(driver)
                   THEN /\ pc' = "sending" /\ result' = result
                        /\ requests' = requests + 1 /\ endpoint' = endpoint + 1
                        /\ last_error' = api_error_received
                        /\ loc'.cbs = <<>>
                   ELSE ends_with_api_error
            [] OTHER -> TRUE]_vars

\* chat_completion_stream got a non-2xx status from both endpoints: two
\* requests, and the error returned is that of the second response
C10_Witness ==
    /\ pc = "done" /\ driver = "chat_completion_stream"
    /\ requests = 2 /\ responses = 2
    /\ result.kind = "Api" /\ result.status = response.status
    /\ last_error = result

(***************************************************************************)
(* The answer of the plain-completion calls                                *)
(***************************************************************************)
PlainDrivers == {"generate_text_stream", "generate_with_config"}

\* C11: when the stream of generate_text_stream or generate_with_config has
\* ended without a transport error, the call returned the empty-response Api
\* error if the accumulated answer is empty after trimming, and Ok otherwise.
C11_EmptyAnswerIsError ==
    (pc = "done" /\ loc.flushed /\ driver \in PlainDrivers) =>
        IF Trim(loc.answer) = <<>>
          THEN result = EmptyResponse /\ result.kind = "Api"
          ELSE result.kind = "Ok"

\* generate_text_stream delivered the fragments " " and "\n" and returned the
\* empty-response error
C11_Witness ==
    /\ pc = "done" /\ loc.flushed /\ driver = "generate_text_stream"
    /\ loc.cbs = <<<<32>>, <<10>>>> /\ loc.answer = <<32, 10>>
    /\ result = EmptyResponse

(***************************************************************************)
(* perform_text_stream_generation after its chunk loop, over answers made  *)
(* of up to MaxFragments fragments                                         *)
(***************************************************************************)
MaxFragments == 4

\* "Answer: Paris is the capital.\nQuery: something else"
S_Example ==
    <<65,110,115,119,101,114,58,32,80,97,114,105,115,32,105,115,32,116,104,101,
      32,99,97,112,105,116,97,108,46,10,81,117,101,114,121,58,32,115,111,109,
      101,116,104,105,110,103,32,101,108,115,101>>
\* "Paris is the capital."
S_Paris == <<80,97,114,105,115,32,105,115,32,116,104,101,32,99,97,112,105,116,97,108,46>>

\* the generated_text values the lines of the stream carry
Fragments == {S_Answer, S_Query, <<32>>, <<10>>, <<13, 10>>, <<97>>, S_Example}

NoCallback == [present |-> FALSE, fail_at |-> 0]

\* a generate_with_config call whose response has begun to stream
PostProcessInit ==
    /\ client = "WatsonxClient"
    /\ access_token = "Some"
    /\ current_model = DEFAULT_MODEL
    /\ pc = "streaming"
    /\ driver = "generate_with_config"
    /\ callback = NoCallback
    /\ thread_id = None
    /\ endpoint = 1
    /\ requests = 1
    /\ last_error = NoResult
    /\ responses = 1
    /\ response = [NoResponse EXCEPT !.status = 200]
    /\ body = <<>>
    /\ pos = 0
    /\ loc = start_locals(None)
    /\ split_char = FALSE
    /\ expired = FALSE
    /\ result = NoResult
    /\ batch_requests = <<>>
    /\ tasks = <<>>
    /\ completion_order = <<>>
    /\ batch_result = NoBatchResult
    /\ error = NoError
    /\ retryable = None
    /\ user_action = None
    /\ config = NoConfig
    /\ argument = None

\* a data line carrying the fragment text: answer.push_str(generated_text);
\* pos counts the fragments
push_fragment(text) ==
    /\ pc = "streaming"
    /\ pos < MaxFragments
    /\ pos' = pos + 1
    /\ loc' = deliver(driver, callback, loc, text)
    /\ UNCHANGED <<client_vars, timer_vars, batch_vars, value_vars, call_vars, endpoint, requests, last_error, http_vars, body,
                   split_char, pc, result>>

\* the stream ends: the empty check, the clean-up, Ok(final_answer)
return_answer ==
    /\ pc = "streaming"
    /\ pc' = "done"
    /\ loc' = [loc EXCEPT !.flushed = TRUE]
    /\ result' = final_result(driver, loc')
    /\ UNCHANGED <<client_vars, timer_vars, batch_vars, value_vars, call_vars, endpoint, requests, last_error, http_vars, body,
                   pos, split_char>>

PostProcessNext ==
    \/ \E text \in Fragments : push_fragment(text)
    \/ return_answer

PostProcessSpec == PostProcessInit /\ [][PostProcessNext]_vars

\* the steps of the post-processing
strip_label(s) == IF StartsWith(s, S_Answer) THEN DropN(s, 7) ELSE s
cut_at_query(s) == IF FindStr(s, S_Query) >= 0 THEN TakeN(s, FindStr(s, S_Query)) ELSE s
keep_first_line(s) == IF first_line(s) # None THEN first_line(s)[1] ELSE s

\* generate_with_config returned Ok
returned_text == pc = "done" /\ driver = "generate_with_config" /\ result.kind = "Ok"

\* C12 as stated: the text returned is the answer trimmed, then without one
\* leading "Answer:", then cut at the first "Query:", then reduced to its
\* first line, trimmed.
C12_PostProcessedOnce ==
    returned_text =>
        result.text = Trim(keep_first_line(cut_at_query(strip_label(Trim(loc.answer)))))

\* C12, amended: the text is trimmed again after the label is removed and
\* after the cut, before the first line is taken; the text returned has no
\* line break, no "Query:", and no blank at either end.
C12_PostProcessed ==
    returned_text =>
        /\ result.text =
             Trim(keep_first_line(Trim(cut_at_query(Trim(strip_label(Trim(loc.answer)))))))
        /\ Find(result.text, NL) < 0
        /\ FindStr(result.text, S_Query) < 0
        /\ Trim(result.text) = result.text

\* the example of the specification
C12_Witness ==
    /\ returned_text /\ loc.answer = S_Example
    /\ result.text = S_Paris

\* C13: the text generate_text_stream returns is the post-processed answer,
\* the text generate_with_config returns for the same response stream.
C13_StreamAnswerPostProcessed ==
    (pc = "done" /\ driver = "generate_text_stream" /\ result.kind = "Ok") =>
        result = final_result("generate_with_config", loc)

(***************************************************************************)
(* The timeout                                                             *)
(***************************************************************************)
\* C14: a generate_with_config, generate_text_stream or chat_completion_stream
\* call whose config.timeout elapsed before the response completed has
\* returned the Timeout error once it has returned.
C14_TimeoutGoverns ==
    (expired /\ pc = "done"
       /\ driver \in {"generate_with_config", "generate_text_stream", "chat_completion_stream"})
        => result.kind = "Timeout"

(***************************************************************************)
(* The thread id                                                           *)
(***************************************************************************)
\* the thread_id an event carries in its data, whatever the event's name
event_thread_id(event_data) ==
    IF event_data.ok THEN as_str(Get(event_data.data, K_thread_id)) ELSE None

carried_thread_id(line_bytes) ==
    IF from_utf8(line_bytes).ok
        THEN event_thread_id(from_str_EventData(Trim(from_utf8(line_bytes).s)))
        ELSE None

\* the thread_id of the last of the records that carries one, else `given`
last_thread_id(records, given) ==
    IF \A i \in 1..Len(records) : carried_thread_id(records[i]) = None THEN given
    ELSE carried_thread_id(records[CHOOSE i \in 1..Len(records) :
             /\ carried_thread_id(records[i]) # None
             /\ \A j \in (i + 1)..Len(records) : carried_thread_id(records[j]) = None])

\* C15: when stream_message returns Ok, the thread id returned is the
\* thread_id of the last event of the stream that carried one (the final
\* unterminated line included), else the thread id the caller passed in.
C15_LastThreadId ==
    (pc = "done" /\ driver = "stream_message" /\ result.kind = "Ok") =>
        result.thread_id = last_thread_id(Append(loc.lines, loc.buffer), thread_id)

(***************************************************************************)
(* The payload shapes                                                      *)
(***************************************************************************)
\* a `data:` line with a payload that is neither empty nor the end sentinel
has_payload(trimmed) ==
    /\ ~is_skipped_line(trimmed)
    /\ StartsWith(trimmed, S_data)
    /\ ~is_empty_or_done(Trim(strip_data_prefix(trimmed)))

payload_of(trimmed) == from_str_Value(Trim(strip_data_prefix(trimmed)))

shape_results(v) == as_str(Get(first_of_array(Get(v, K_results)), K_generated_text))
shape_delta(v) == as_str(Get(Get(first_of_array(Get(v, K_choices)), K_delta), K_content))
shape_message(v) == as_str(Get(Get(first_of_array(Get(v, K_choices)), K_message), K_content))
content_text(v) == as_str(Get(first_of_array(Get(v, K_content)), K_text))
shape_agent(v) ==
    IF content_text(Get(Get(v, K_data), K_delta)) # None
        THEN content_text(Get(Get(v, K_data), K_delta))
        ELSE content_text(Get(v, K_data))

\* the first of the given texts that is present
first_present(texts) ==
    IF \A i \in 1..Len(texts) : texts[i] = None THEN None
    ELSE texts[CHOOSE i \in 1..Len(texts) :
                 texts[i] # None /\ \A j \in 1..(i - 1) : texts[j] = None]

three_shapes(p) ==
    IF p.ok THEN first_present(<<shape_results(p.v), shape_delta(p.v), shape_message(p.v)>>)
    ELSE None

four_shapes(p) ==
    IF p.ok THEN first_present(<<shape_results(p.v), shape_delta(p.v),
                                 shape_message(p.v), shape_agent(p.v)>>)
    ELSE None

agent_shapes(p) ==
    IF p.ok /\ as_str(Get(p.v, K_event)) = Some(E_message_delta) THEN shape_agent(p.v)
    ELSE None

silent(outcome) == ~outcome.warn /\ ~outcome.parse_failed /\ ~outcome.utf8_failed

SseDrivers == WatsonxDrivers \cup ResponseDrivers

\* a blank line, an id:, event:, comment or other line that is not a data:
\* line, a data: line with nothing after the colon but white space, and the
\* [DONE] sentinel after any number of spaces
ignorable(line) ==
    \/ ~StartsWith(Trim(line), S_data)
    \/ Trim(DropN(Trim(line), 5)) \in {<<>>, S_DONE}

not_ignorable(line) == ~ignorable(line)

\* C17: in the decoders of data: lines, an ignorable line yields no fragment,
\* no warning and no error, and the accumulated answer is the one of the
\* other lines alone, at every point of every chunking.
C17_IgnorableLines ==
    (pc \in {"streaming", "done"} /\ driver \in SseDrivers) =>
        /\ \A i \in 1..Len(loc.lines) :
              ignorable(loc.lines[i]) => line_outcome(driver, loc.lines[i]) = NoEffect
        /\ loc.answer = Concat(line_fragments(driver, SelectSeq(loc.lines, not_ignorable))
                               \o rest_fragment(driver, loc))

\* generate_text_stream returned "a" after the ignorable lines of Body_G8
\* ([DONE] after one, no and several spaces, two empty data: lines, a TAB)
C17_Witness ==
    /\ pc = "done" /\ driver = "generate_text_stream" /\ body = Body_G8
    /\ Len(loc.lines) >= 6
    /\ \A i \in 1..6 : ignorable(loc.lines[i])
    /\ result = Ok(<<97>>, None)

(***************************************************************************)
(* WatsonxClient::generate_batch                                           *)
(***************************************************************************)
\* the longest `requests` of a generate_batch call
MaxBatch == 2

S_p == <<112>>                                                 \* "p"
S_q == <<113>>                                                 \* "q"
S_x == <<120>>                                                 \* "x"
S_y == <<121>>                                                 \* "y"

\* models.rs
MAX_TOKENS_LIMIT == 131072
DEFAULT_MAX_TOKENS == 8192
QUICK_RESPONSE_MAX_TOKENS == 2048

\* impl Default for GenerationConfig / ChatCompletionConfig (timeout in seconds)
GenerationConfig_default ==
    [type |-> "GenerationConfig", model_id |-> DEFAULT_MODEL, timeout |-> 120,
     max_tokens |-> DEFAULT_MAX_TOKENS]
ChatCompletionConfig_default ==
    [type |-> "ChatCompletionConfig", model_id |-> DEFAULT_MODEL, timeout |-> 120,
     max_tokens |-> DEFAULT_MAX_TOKENS]

long_form ==
    [GenerationConfig_default EXCEPT !.max_tokens = MAX_TOKENS_LIMIT, !.timeout = 300]
quick_response ==
    [GenerationConfig_default EXCEPT !.max_tokens = QUICK_RESPONSE_MAX_TOKENS, !.timeout = 30]

\* u32::min
min(a, b) == IF a <= b THEN a ELSE b

with_max_tokens_unclamped(cfg, max_tokens) == [cfg EXCEPT !.max_tokens = max_tokens]

\* self.max_tokens = max_tokens.min(MAX_TOKENS_LIMIT)
with_max_tokens(cfg, max_tokens) == [cfg EXCEPT !.max_tokens = min(max_tokens, MAX_TOKENS_LIMIT)]
with_model(cfg, model_id) == [cfg EXCEPT !.model_id = model_id]
with_timeout(cfg, timeout) == [cfg EXCEPT !.timeout = timeout]

\* the default_config argument of generate_batch, and a request's own config
default_config == with_model(GenerationConfig_default, "model-of-the-batch")
own_config == with_model(GenerationConfig_default, "model-of-the-request")

\* BatchRequest { prompt, config, id }
BatchRequest(prompt, cfg, id) == [prompt |-> prompt, config |-> cfg, id |-> id]

BatchRequests ==
    {BatchRequest(S_p, None, None), BatchRequest(S_p, Some(own_config), Some(S_x)),
     BatchRequest(S_q, None, Some(S_y))}

\* GenerationResult::new(text, model_id)
GenerationResult(text, model_id) == [text |-> text, model_id |-> model_id]

\* the bodies of the non-streaming endpoint:
\*   {"results":[{"generated_text":"a"}]}     {"results":[]}     {bad
Json_One ==
    <<123,34,114,101,115,117,108,116,115,34,58,91,123,34,103,101,110,101,114,97,
      116,101,100,95,116,101,120,116,34,58,34,97,34,125,93,125>>
Json_NoResults == <<123,34,114,101,115,117,108,116,115,34,58,91,93,125>>
Json_Bad == <<123,98,97,100>>

BatchResponses ==
    {[status |-> 200, body |-> Json_One], [status |-> 200, body |-> Json_NoResults],
     [status |-> 200, body |-> Json_Bad], [status |-> 500, body |-> <<>>]}

SerializationError == [NoResult EXCEPT !.kind = "Serialization"]
NoResults == [NoResult EXCEPT !.kind = "Api", !.body = "No generation results returned from API"]

\* BatchItemResult::success / BatchItemResult::failure
success(id, prompt, gen_result) ==
    [id |-> id, prompt |-> prompt, result |-> Some(gen_result), error |-> None]
failure(id, prompt, e) ==
    [id |-> id, prompt |-> prompt, result |-> None, error |-> Some(e)]
item_is_success(item) == item.error = None

NoItem == [id |-> None, prompt |-> <<>>, result |-> None, error |-> None]

\* perform_text_generation_internal once the response is there
generated(status, data) ==
    IF ~is_success(status) THEN [ok |-> FALSE, text |-> <<>>, error |-> ApiError(status, "request failed")]
    ELSE IF ~data.ok THEN [ok |-> FALSE, text |-> <<>>, error |-> SerializationError]
    ELSE IF data.results # <<>> THEN [ok |-> TRUE, text |-> data.results[1], error |-> NoResult]
    ELSE [ok |-> FALSE, text |-> <<>>, error |-> NoResults]

perform_text_generation_internal(rsp) ==
    generated(rsp.status, from_str_GenerationData(rsp.body))

\* what perform_text_generation_internal returns for each response of the
\* model, evaluated once
generation_of == [rsp \in BatchResponses |-> perform_text_generation_internal(rsp)]

\* match result { Ok(text) => success(id, prompt, ..), Err(error) => failure(id, prompt, error) }
item_of(id, prompt, cfg, r) ==
    IF r.ok THEN success(id, prompt, GenerationResult(r.text, cfg.model_id))
    ELSE failure(id, prompt, r.error)

spawn_with_default(req) ==
    [state |-> "spawned", prompt |-> req.prompt, id |-> req.id, config |-> default_config,
     response |-> [status |-> 0, body |-> <<>>], overdue |-> FALSE, item |-> NoItem]

\* the task spawned for a request: it owns clones of the prompt and of the id,
\* and req.config.clone().unwrap_or_else(|| default_config.clone()); `overdue`:
\* its request is in flight and the timeout of its config has elapsed
spawn(req) ==
    [state |-> "spawned", prompt |-> req.prompt, id |-> req.id,
     config |-> IF req.config # None THEN req.config[1] ELSE default_config,
     response |-> [status |-> 0, body |-> <<>>], overdue |-> FALSE, item |-> NoItem]

unwrap_or_else_serialization(task) ==
    IF task.state = "join_error" THEN failure(None, <<>>, SerializationError) ELSE task.item

\* task_result.unwrap_or_else(|e| failure(None, String::new(), Network(..)))
unwrap_or_else(task) ==
    IF task.state = "join_error" THEN failure(None, <<>>, NetworkError) ELSE task.item

join_all_reversed(ts) == [i \in 1..Len(ts) |-> unwrap_or_else(ts[Len(ts) + 1 - i])]

\* join_all(tasks): the outputs in the order of the tasks
join_all(ts) == [i \in 1..Len(ts) |-> unwrap_or_else(ts[i])]

BatchGenerationResult_miscounted(results) ==
    [kind |-> "Ok", results |-> results, total |-> Len(results),
     failed |-> Cardinality({i \in 1..Len(results) : ~item_is_success(results[i])}),
     successful |-> IF Len(results) = 0 THEN 0
                    ELSE Len(results) - 1]

\* BatchGenerationResult::new
BatchGenerationResult(results) ==
    [kind |-> "Ok", results |-> results, total |-> Len(results),
     successful |-> Cardinality({i \in 1..Len(results) : item_is_success(results[i])}),
     failed |-> Len(results)
                - Cardinality({i \in 1..Len(results) : item_is_success(results[i])})]

batch_return_all_or_nothing(results) ==
    IF \E i \in 1..Len(results) : ~item_is_success(results[i])
        THEN [NoBatchResult EXCEPT !.kind = results[CHOOSE i \in 1..Len(results) :
                                             ~item_is_success(results[i])].error[1].kind]
        ELSE BatchGenerationResult(results)

\* Ok(BatchGenerationResult::new(results, duration))
batch_return(results) == BatchGenerationResult(results)

\* a client, connected or not, and the requests of one generate_batch call
BatchInit ==
    /\ client = "WatsonxClient"
    /\ access_token \in {"None", "Some"}
    /\ current_model = DEFAULT_MODEL
    /\ pc = "idle"
    /\ driver = "generate_batch"
    /\ callback = NoCallback
    /\ thread_id = None
    /\ endpoint = 0
    /\ requests = 0
    /\ last_error = NoResult
    /\ responses = 0
    /\ response = NoResponse
    /\ body = <<>>
    /\ pos = 0
    /\ loc = start_locals(None)
    /\ split_char = FALSE
    /\ expired = FALSE
    /\ result = NoResult
    /\ batch_requests \in UNION {[1..n -> BatchRequests] : n \in 0..MaxBatch}
    /\ tasks = <<>>
    /\ completion_order = <<>>
    /\ batch_result = NoBatchResult
    /\ error = NoError
    /\ retryable = None
    /\ user_action = None
    /\ config = NoConfig
    /\ argument = None

stream_vars == <<call_vars, endpoint, last_error, http_vars, body, pos, loc, split_char,
                 timer_vars, result>>

generate_batch_unchecked ==
    /\ pc = "idle"
    /\ pc' = "joining"
    /\ tasks' = [i \in 1..Len(batch_requests) |-> spawn(batch_requests[i])]
    /\ UNCHANGED <<client_vars, stream_vars, value_vars, requests, batch_requests, completion_order,
                   batch_result>>

\* generate_batch up to join_all(tasks).await: the authentication check, then
\* one spawned task per request
generate_batch ==
    /\ pc = "idle"
    /\ IF access_token = "None"
         THEN /\ pc' = "done"
              /\ batch_result' = [NoBatchResult EXCEPT !.kind = "Authentication"]
              /\ UNCHANGED tasks
         ELSE /\ pc' = "joining"
              /\ tasks' = [i \in 1..Len(batch_requests) |-> spawn(batch_requests[i])]
              /\ UNCHANGED batch_result
    /\ UNCHANGED <<client_vars, stream_vars, value_vars, requests, batch_requests, completion_order>>

task_send_cancelling(i) ==
    /\ pc = "joining"
    /\ tasks[i].state = "spawned"
    /\ requests' = requests + 1
    /\ tasks' = [j \in 1..Len(tasks) |->
                   IF j = i
                     THEN [tasks[j] EXCEPT !.state = "finished",
                              !.item = failure(tasks[i].id, tasks[i].prompt, NetworkError)]
                   ELSE IF tasks[j].state \in {"spawned", "awaiting"}
                     THEN [tasks[j] EXCEPT !.state = "join_error"]
                   ELSE tasks[j]]
    /\ completion_order' = Append(completion_order, i)
    /\ UNCHANGED <<client_vars, stream_vars, value_vars, pc, batch_requests, batch_result>>

\* task_send of a dispatcher that awaits each item before it starts the next
task_send_in_turn(i) ==
    /\ pc = "joining"
    /\ tasks[i].state = "spawned"
    /\ \A j \in 1..(i - 1) : tasks[j].state \in {"finished", "join_error"}
    /\ requests' = requests + 1
    /\ \/ /\ tasks' = [tasks EXCEPT ![i].state = "finished",
                                    ![i].item = failure(tasks[i].id, tasks[i].prompt, NetworkError)]
          /\ completion_order' = Append(completion_order, i)
       \/ /\ \E rsp \in BatchResponses :
                tasks' = [tasks EXCEPT ![i].state = "awaiting", ![i].response = rsp]
          /\ UNCHANGED completion_order
    /\ UNCHANGED <<client_vars, stream_vars, value_vars, pc, batch_requests, batch_result>>

\* a task's .send().await: a transport error ends the task with a failure,
\* else the response arrives
task_send(i) ==
    /\ pc = "joining"
    /\ tasks[i].state = "spawned"
    /\ requests' = requests + 1
    /\ \/ /\ tasks' = [tasks EXCEPT ![i].state = "finished",
                                    ![i].item = failure(tasks[i].id, tasks[i].prompt, NetworkError)]
          /\ completion_order' = Append(completion_order, i)
       \/ /\ \E rsp \in BatchResponses :
                tasks' = [tasks EXCEPT ![i].state = "awaiting", ![i].response = rsp]
          /\ UNCHANGED completion_order
    /\ UNCHANGED <<client_vars, stream_vars, value_vars, pc, batch_requests, batch_result>>

\* the rest of the task: the status, the body, the BatchItemResult
task_finish(i) ==
    /\ pc = "joining"
    /\ tasks[i].state = "awaiting"
    /\ tasks' = [tasks EXCEPT
                   ![i].state = "finished",
                   ![i].overdue = FALSE,
                   ![i].item = item_of(tasks[i].id, tasks[i].prompt, tasks[i].config,
                                       generation_of[tasks[i].response])]
    /\ completion_order' = Append(completion_order, i)
    /\ UNCHANGED <<client_vars, stream_vars, value_vars, pc, requests, batch_requests, batch_result>>

\* the timeout of the task's config elapses while the task awaits its
\* response: perform_text_generation_internal is not wrapped in
\* tokio::time::timeout and never reads config.timeout
task_timeout_elapses(i) ==
    /\ pc = "joining"
    /\ tasks[i].state = "awaiting"
    /\ ~tasks[i].overdue
    /\ tasks' = [tasks EXCEPT ![i].overdue = TRUE]
    /\ UNCHANGED <<client_vars, stream_vars, value_vars, pc, requests, batch_requests,
                   completion_order, batch_result>>

\* a task panics or is cancelled: its JoinHandle yields Err(JoinError)
task_join_error(i) ==
    /\ pc = "joining"
    /\ tasks[i].state \in {"spawned", "awaiting"}
    /\ tasks' = [tasks EXCEPT ![i].state = "join_error", ![i].overdue = FALSE]
    /\ completion_order' = Append(completion_order, i)
    /\ UNCHANGED <<client_vars, stream_vars, value_vars, pc, requests, batch_requests, batch_result>>

\* batch_done of a dispatcher that returns with the first task that ends
batch_done_first ==
    /\ pc = "joining"
    /\ \E i \in 1..Len(tasks) : tasks[i].state \in {"finished", "join_error"}
    /\ batch_result' = batch_return(join_all(tasks))
    /\ pc' = "done"
    /\ UNCHANGED <<client_vars, stream_vars, value_vars, requests, batch_requests, tasks, completion_order>>

\* join_all(tasks).await is ready when every task has ended
batch_done ==
    /\ pc = "joining"
    /\ \A i \in 1..Len(tasks) : tasks[i].state \in {"finished", "join_error"}
    /\ batch_result' = batch_return(join_all(tasks))
    /\ pc' = "done"
    /\ UNCHANGED <<client_vars, stream_vars, value_vars, requests, batch_requests, tasks, completion_order>>

BatchNext ==
    \/ generate_batch
    \/ \E i \in 1..Len(tasks) : task_send(i)
    \/ \E i \in 1..Len(tasks) : task_finish(i)
    \/ \E i \in 1..Len(tasks) : task_join_error(i)
    \/ \E i \in 1..Len(tasks) : task_timeout_elapses(i)
    \/ batch_done

BatchSpec == BatchInit /\ [][BatchNext]_vars

\* C18: generate_batch on an authenticated client returns Ok with exactly one
\* BatchItemResult per request, whatever the outcomes of the items, and its
\* counts add up to the number of requests.
C18_BatchNeverFails ==
    (pc = "done" /\ access_token = "Some") =>
        /\ batch_result.kind = "Ok"
        /\ Len(batch_result.results) = Len(batch_requests)
        /\ batch_result.total = Len(batch_requests)
        /\ batch_result.successful + batch_result.failed = Len(batch_requests)
        /\ batch_result.failed
             = Cardinality({i \in 1..Len(tasks) : tasks[i].state = "join_error"
                                                  \/ ~item_is_success(tasks[i].item)})

\* a batch of MaxBatch requests returned Ok although every item failed, with a
\* transport error and with an error of another kind among them
C18_Witness ==
    /\ pc = "done" /\ batch_result.kind = "Ok"
    /\ Len(batch_requests) = MaxBatch
    /\ batch_result.failed = MaxBatch
    /\ \E i, j \in 1..MaxBatch :
          /\ batch_result.results[i].error = Some(NetworkError)
          /\ batch_result.results[j].error # None
          /\ batch_result.results[j].error[1].kind \in {"Api", "Serialization"}

\* C19: whatever the order in which the tasks ended, results[i] is what the
\* task spawned for requests[i] returned.
C19_PositionalResults ==
    (pc = "done" /\ batch_result.kind = "Ok") =>
        \A i \in 1..Len(batch_requests) :
            /\ batch_result.results[i] = unwrap_or_else(tasks[i])
            /\ tasks[i].prompt = batch_requests[i].prompt
            /\ tasks[i].id = batch_requests[i].id
            /\ tasks[i].state = "finished" =>
                  /\ tasks[i].item.prompt = batch_requests[i].prompt
                  /\ tasks[i].item.id = batch_requests[i].id

\* the last task ended first, and the two outcomes differ
C19_Witness ==
    /\ pc = "done" /\ batch_result.kind = "Ok"
    /\ Len(batch_requests) = MaxBatch
    /\ completion_order[1] = MaxBatch
    /\ completion_order[MaxBatch] = 1
    /\ item_is_success(batch_result.results[1])
    /\ ~item_is_success(batch_result.results[MaxBatch])
    /\ batch_requests[1] # batch_requests[MaxBatch]

\* C20: every BatchItemResult returned carries the prompt and the id of the
\* request at its position, the failure made for a task that could not be
\* joined included.
C20_DiagnosticsPresent ==
    (pc = "done" /\ batch_result.kind = "Ok") =>
        \A i \in 1..Len(batch_requests) :
            /\ batch_result.results[i].prompt = batch_requests[i].prompt
            /\ batch_result.results[i].id = batch_requests[i].id

\* the tasks of the batch that could not be joined
not_joined == {i \in 1..Len(tasks) : tasks[i].state = "join_error"}

\* C21: when the task of an item cannot be joined, generate_batch still
\* returns Ok, that item is a failure with a Network error and no result, and
\* every other item is reported as its own task returned it.
C21_JoinFailureContained ==
    (pc = "done" /\ access_token = "Some" /\ not_joined # {}) =>
        /\ batch_result.kind = "Ok"
        /\ \A i \in not_joined :
              /\ batch_result.results[i].error = Some(NetworkError)
              /\ batch_result.results[i].result = None
        /\ \A i \in (1..Len(tasks)) \ not_joined :
              batch_result.results[i] = tasks[i].item

\* one task could not be joined, another returned a text
C21_Witness ==
    /\ pc = "done" /\ batch_result.kind = "Ok"
    /\ Cardinality(not_joined) = 1
    /\ \E i \in 1..Len(tasks) :
          /\ i \notin not_joined
          /\ batch_result.results[i].result # None
          /\ batch_result.results[i].result[1].text = <<97>>

(***************************************************************************)
(* BatchGenerationResult                                                   *)
(***************************************************************************)
has_result(item) == item.result # None
has_error(item) == item.error # None

\* filter_map(|r| r.result.as_ref())
successes(r) ==
    [i \in 1..Len(SelectSeq(r.results, has_result)) |->
        SelectSeq(r.results, has_result)[i].result[1]]

\* filter_map(|r| r.error.as_ref().map(|e| (r.prompt.as_str(), e)))
failures(r) ==
    [i \in 1..Len(SelectSeq(r.results, has_error)) |->
        <<SelectSeq(r.results, has_error)[i].prompt, SelectSeq(r.results, has_error)[i].error[1]>>]

all_succeeded(r) == r.failed = 0
any_failed(r) == r.failed > 0

\* C22: in the BatchGenerationResult that generate_batch builds, total is the
\* number of items, successful the number of items without an error, failed
\* the rest; successes() and failures() have that many entries;
\* all_succeeded() holds exactly when failed = 0 and any_failed() is its
\* negation.
C22_BatchCounters ==
    (pc = "done" /\ batch_result.kind = "Ok") =>
        /\ batch_result.total = Len(batch_result.results)
        /\ batch_result.successful
             = Cardinality({i \in 1..Len(batch_result.results) :
                               batch_result.results[i].error = None})
        /\ batch_result.failed = batch_result.total - batch_result.successful
        /\ Len(successes(batch_result)) = batch_result.successful
        /\ Len(failures(batch_result)) = batch_result.failed
        /\ all_succeeded(batch_result) <=> batch_result.failed = 0
        /\ any_failed(batch_result) <=> ~all_succeeded(batch_result)

\* a result with a success and a failure, built from items of both kinds
C22_Witness ==
    /\ pc = "done" /\ batch_result.kind = "Ok"
    /\ batch_result.total = MaxBatch
    /\ batch_result.successful >= 1 /\ batch_result.failed >= 1
    /\ Len(successes(batch_result)) >= 1 /\ Len(failures(batch_result)) >= 1
    /\ any_failed(batch_result)

\* C23: on a client without an access token generate_batch spawns no task and
\* issues no HTTP request, and what it returns is the Authentication error,
\* however many requests it was given.
C23_BatchAuthenticationUpFront ==
    (driver = "generate_batch" /\ access_token = "None") =>
        /\ tasks = <<>>
        /\ requests = 0
        /\ pc \in {"idle", "done"}
        /\ pc = "done" => /\ batch_result.kind = "Authentication"
                          /\ batch_result.results = <<>>

\* the call with MaxBatch requests has returned the Authentication error
C23_Witness ==
    /\ driver = "generate_batch" /\ access_token = "None"
    /\ pc = "done"
    /\ Len(batch_requests) = MaxBatch
    /\ batch_result.kind = "Authentication"

\* what happened to a task: it could not be joined, its request failed in
\* transport (no response), or the server answered
fate(task) ==
    IF task.state = "join_error" THEN "join_error"
    ELSE IF task.response.status = 0 THEN "no_response"
    ELSE "answered"

\* the config an item is executed with
effective_config(req) == IF req.config = None THEN default_config ELSE req.config[1]

\* the result of an item as a function of its request and of what happened to
\* its own task
item_for(req, what, rsp) ==
    CASE what = "join_error" -> failure(None, <<>>, NetworkError)
      [] what = "no_response" -> failure(req.id, req.prompt, NetworkError)
      [] what = "answered" ->
            IF rsp.status = 200 /\ rsp.body = Json_One
                THEN success(req.id, req.prompt,
                             GenerationResult(<<97>>, effective_config(req).model_id))
            ELSE IF rsp.status = 200 /\ rsp.body = Json_NoResults
                THEN failure(req.id, req.prompt, NoResults)
            ELSE IF rsp.status = 200 THEN failure(req.id, req.prompt, SerializationError)
            ELSE failure(req.id, req.prompt, ApiError(rsp.status, "request failed"))

\* C24: a step of one task changes no other task, and the result of item i is
\* determined by request i and by what happened to task i (the server's
\* answer, a transport failure, a panic), whatever happened to the others.
C24_BatchNonInterference ==
    [][pc = "joining" =>
          /\ Cardinality({i \in 1..Len(tasks) : tasks'[i] # tasks[i]}) <= 1
          /\ pc' = "done" =>
                \A i \in 1..Len(batch_requests) :
                    batch_result'.results[i]
                        = item_for(batch_requests[i], fate(tasks[i]), tasks[i].response)]_vars

\* the first item failed in transport before the last one was answered, and
\* the last one succeeded
C24_Witness ==
    /\ pc = "done" /\ batch_result.kind = "Ok"
    /\ Len(batch_requests) = MaxBatch
    /\ completion_order[1] = 1
    /\ fate(tasks[1]) = "no_response"
    /\ batch_result.results[1].error = Some(NetworkError)
    /\ batch_result.results[MaxBatch].result # None
    /\ batch_result.results[MaxBatch].result[1].text = <<97>>

\* C25: every task runs with its request's own config when the request has
\* one and with default_config otherwise, whatever the configs of the other
\* requests, and the model id in a successful item is that of this config.
C25_EffectiveConfig ==
    (driver = "generate_batch" /\ pc \in {"joining", "done"} /\ access_token = "Some") =>
        \A i \in 1..Len(batch_requests) :
            /\ batch_requests[i].config = None => tasks[i].config = default_config
            /\ batch_requests[i].config # None => tasks[i].config = batch_requests[i].config[1]
            /\ (pc = "done" /\ batch_result.results[i].result # None) =>
                  batch_result.results[i].result[1].model_id
                      = effective_config(batch_requests[i]).model_id

\* a request with its own config first, one without after it, both successful,
\* each with the model id of its config
C25_Witness ==
    /\ pc = "done" /\ batch_result.kind = "Ok"
    /\ Len(batch_requests) = MaxBatch
    /\ batch_requests[1].config = Some(own_config)
    /\ batch_requests[MaxBatch].config = None
    /\ batch_result.results[1].result # None
    /\ batch_result.results[1].result[1].model_id = "model-of-the-request"
    /\ batch_result.results[MaxBatch].result # None
    /\ batch_result.results[MaxBatch].result[1].model_id = "model-of-the-batch"

(***************************************************************************)
(* Error::is_retryable, Error::requires_user_action                        *)
(***************************************************************************)
ErrorKinds ==
    {"Network", "Authentication", "Api", "Timeout", "Serialization", "Configuration",
     "InvalidInput", "RateLimit", "ModelNotFound", "ProjectNotFound", "Io"}

\* the statuses of the responses an Error::Api is made from; 0: made without one
ApiStatuses == {0, 400, 404, 429, 500, 502, 503}

Errors ==
    {[kind |-> "Api", status |-> st, message |-> "request failed"] : st \in ApiStatuses}
    \cup {[kind |-> k, status |-> 0, message |-> m] :
             k \in ErrorKinds \ {"Api"}, m \in {"", "test"}}

is_retryable_with_api(e) == e.kind \in {"Network", "Timeout", "RateLimit", "Api"}

\* matches!(self, Error::Network(_) | Error::Timeout(_) | Error::RateLimit(_))
is_retryable(e) == e.kind \in {"Network", "Timeout", "RateLimit"}

requires_user_action(e) ==
    e.kind \in {"Authentication", "Configuration", "InvalidInput", "ModelNotFound",
                "ProjectNotFound"}

ErrorInit ==
    /\ client = "WatsonxClient"
    /\ access_token = "None"
    /\ current_model = DEFAULT_MODEL
    /\ pc = "idle"
    /\ driver = "none"
    /\ callback = NoCallback
    /\ thread_id = None
    /\ endpoint = 0
    /\ requests = 0
    /\ last_error = NoResult
    /\ responses = 0
    /\ response = NoResponse
    /\ body = <<>>
    /\ pos = 0
    /\ loc = start_locals(None)
    /\ split_char = FALSE
    /\ expired = FALSE
    /\ result = NoResult
    /\ batch_requests = <<>>
    /\ tasks = <<>>
    /\ completion_order = <<>>
    /\ batch_result = NoBatchResult
    /\ error \in Errors
    /\ retryable = None
    /\ user_action = None
    /\ config = NoConfig
    /\ argument = None

program_vars == <<client_vars, stream_vars, batch_vars, pc, requests>>

call_is_retryable ==
    /\ retryable = None
    /\ retryable' = Some(is_retryable(error))
    /\ UNCHANGED <<program_vars, error, user_action, config, argument>>

call_requires_user_action ==
    /\ user_action = None
    /\ user_action' = Some(requires_user_action(error))
    /\ UNCHANGED <<program_vars, error, retryable, config, argument>>

ErrorNext == call_is_retryable \/ call_requires_user_action

ErrorSpec == ErrorInit /\ [][ErrorNext]_vars

C27_ServerErrorsRetryable ==
    (error.kind = "Api" /\ error.status >= 500 /\ error.status <= 599 /\ retryable # None)
        => retryable = Some(TRUE)

(***************************************************************************)
(* with_max_tokens                                                         *)
(***************************************************************************)
\* the arguments tried, on both sides of MAX_TOKENS_LIMIT; the argument is a
\* u32, and 2^31 - 1 is the largest integer TLC represents
TokenArguments == {0, 1, 50000, 131071, 131072, 131073, 200000, 2147483647}
ModelArguments == {DEFAULT_MODEL, "test-model"}
TimeoutArguments == {30, 60}

ConfigInit ==
    /\ client = "WatsonxClient"
    /\ access_token = "None"
    /\ current_model = DEFAULT_MODEL
    /\ pc = "idle"
    /\ driver = "none"
    /\ callback = NoCallback
    /\ thread_id = None
    /\ endpoint = 0
    /\ requests = 0
    /\ last_error = NoResult
    /\ responses = 0
    /\ response = NoResponse
    /\ body = <<>>
    /\ pos = 0
    /\ loc = start_locals(None)
    /\ split_char = FALSE
    /\ expired = FALSE
    /\ result = NoResult
    /\ batch_requests = <<>>
    /\ tasks = <<>>
    /\ completion_order = <<>>
    /\ batch_result = NoBatchResult
    /\ error = NoError
    /\ retryable = None
    /\ user_action = None
    /\ config \in {GenerationConfig_default, long_form, quick_response,
                   ChatCompletionConfig_default}
    /\ argument = None

call_with_max_tokens ==
    \E n \in TokenArguments :
        /\ config' = with_max_tokens(config, n)
        /\ argument' = Some(n)
        /\ UNCHANGED <<program_vars, error, retryable, user_action>>

call_with_model ==
    \E model_id \in ModelArguments :
        /\ config' = with_model(config, model_id)
        /\ UNCHANGED <<program_vars, error, retryable, user_action, argument>>

call_with_timeout ==
    \E timeout \in TimeoutArguments :
        /\ config' = with_timeout(config, timeout)
        /\ UNCHANGED <<program_vars, error, retryable, user_action, argument>>

ConfigNext == call_with_max_tokens \/ call_with_model \/ call_with_timeout

ConfigSpec == ConfigInit /\ [][ConfigNext]_vars

\* C28: after with_max_tokens(n), max_tokens is n when n <= MAX_TOKENS_LIMIT
\* and MAX_TOKENS_LIMIT otherwise, for both config types; and every config
\* made by default(), long_form(), quick_response() and builder calls has
\* max_tokens <= MAX_TOKENS_LIMIT.
C28_MaxTokensClamped ==
    /\ config.max_tokens <= 131072
    /\ argument # None =>
          config.max_tokens = IF argument[1] <= 131072 THEN argument[1] ELSE 131072
    /\ argument = None =>
          config.max_tokens \in {8192, 131072, 2048}

\* with_max_tokens(200000) on a ChatCompletionConfig, other builders after it
C28_Witness ==
    /\ config.type = "ChatCompletionConfig"
    /\ argument = Some(200000)
    /\ config.max_tokens = 131072
    /\ config.model_id = "test-model"
    /\ config.timeout = 60

\* C29: in parse_sse_stream and in chat_completion_stream alike, a data line
\* whose payload parses yields the first of results[0].generated_text,
\* choices[0].delta.content and choices[0].message.content that is present
\* as a string: a delta without string content falls through to the message.
C29_PrecedenceWithFallThrough ==
    (driver \in {"parse_sse_stream", "chat_completion_stream"}) =>
        \A i \in 1..Len(loc.lines) :
            (has_payload(Trim(loc.lines[i])) /\ payload_of(Trim(loc.lines[i])).ok) =>
                line_outcome(driver, loc.lines[i]).frag
                    = three_shapes(payload_of(Trim(loc.lines[i])))

\* the end sentinel: data: [DONE]
done_line(line) ==
    StartsWith(Trim(line), S_data) /\ Trim(DropN(Trim(line), 5)) = S_DONE

\* C30: after a data: [DONE] line no later line, and no unterminated rest,
\* yields a fragment.
C30_DoneIsTerminal ==
    (driver \in SseDrivers /\ pc \in {"streaming", "done"}) =>
        \A i \in 1..Len(loc.lines) :
            done_line(loc.lines[i]) =>
                /\ \A j \in (i + 1)..Len(loc.lines) :
                      line_outcome(driver, loc.lines[j]).frag = None
                /\ rest_fragment(driver, loc) = None

(***************************************************************************)
(* Between two chunks                                                      *)
(***************************************************************************)
\* the number of newlines in the text (or bytes) received so far
newlines_received(l) == Cardinality({i \in 1..Len(l.received) : l.received[i] = NL})

\* C31: whenever a streaming call waits for its next chunk, the buffer holds
\* no newline: every line received whole has been extracted, and the fragments
\* of those lines have been appended to the answer and passed to the callback.
C31_NoBufferingAhead ==
    pc = "streaming" =>
        /\ Find(loc.buffer, NL) < 0
        /\ Len(loc.lines) = newlines_received(loc)
        /\ callback.present => loc.cbs = line_fragments(driver, loc.lines)
        /\ KeepsAnswer(driver) => loc.answer = Concat(line_fragments(driver, loc.lines))

\* chat_completion_stream waits for a chunk with two fragments delivered, the
\* lines they came in extracted, and the beginning of a further line in the
\* buffer
C31_Witness ==
    /\ pc = "streaming" /\ driver = "chat_completion_stream" /\ pos < Len(body)
    /\ Len(loc.cbs) = 2 /\ Len(loc.lines) >= 2
    /\ loc.buffer # <<>> /\ Find(loc.buffer, NL) < 0

(***************************************************************************)
(* Bytes that are not UTF-8                                                *)
(***************************************************************************)
\* what the line yields when it is decoded with substitution characters
lossy_outcome(d, line) ==
    IF d = "stream_message"
        THEN agent_line([ok |-> TRUE, s |-> from_utf8_lossy(line)], TRUE)
        ELSE line_outcome(d, line)

\* the call is over and it did not read its stream to the end
stopped_early == pc = "done" /\ body # <<>> /\ ~loc.flushed

\* the fragments of the lines of stream_message that are valid UTF-8
valid_line_fragments(lines) ==
    Concat([i \in 1..Len(lines) |->
               IF from_utf8(lines[i]).ok
                 THEN agent_trimmed(Trim(from_utf8(lines[i]).s), TRUE).frag
                 ELSE <<>>])

C33_ItemTimeoutGoverns ==
    [][\A i \in 1..Len(tasks) :
          /\ (tasks[i].overdue /\ tasks'[i].state = "finished")
                => ~item_is_success(tasks'[i].item)
          /\ (~tasks[i].overdue /\ tasks'[i].overdue)
                => \A j \in 1..Len(tasks) : j # i => tasks'[j] = tasks[j]]_vars

(***************************************************************************)
(* Concurrency of the batch items                                          *)
(***************************************************************************)
\* the requests of the batch that have been sent and not yet answered
in_flight == {i \in 1..Len(tasks) : tasks[i].state = "awaiting"}

\* C34: once generate_batch waits, every one of its N tasks has been spawned,
\* and a task that has not sent its request yet can send it whatever the state
\* of the other tasks: no item waits for the completion of another.
C34_ConcurrentDispatch ==
    pc = "joining" =>
        /\ Len(tasks) = Len(batch_requests)
        /\ \A j \in 1..Len(tasks) :
              tasks[j].state = "spawned" => ENABLED task_send(j)

\* all the requests of a batch of MaxBatch are in flight at once, none of the
\* tasks having ended
C34_Witness ==
    /\ pc = "joining" /\ Len(batch_requests) = MaxBatch
    /\ Cardinality(in_flight) = MaxBatch
    /\ requests = MaxBatch
    /\ completion_order = <<>>

(***************************************************************************)
(* A transport failure in the middle of a stream                           *)
(***************************************************************************)
\* the call ended on a chunk that could not be read
failed_mid_stream == pc = "done" /\ body # <<>> /\ result.kind = "Network"

\* C35: a streaming call that ended on a failed chunk read returned the
\* Network error and nothing else (no text, no thread id); the buffer was not
\* flushed; and the callback has received, once each and in order, exactly the
\* fragments of the lines extracted before the failure.
C35_MidStreamFailure ==
    failed_mid_stream =>
        /\ result = NetworkError
        /\ ~loc.flushed /\ ~loc.failed
        /\ loc.received = lines_with_newlines(loc.lines) \o loc.buffer
        /\ loc.cbs = IF callback.present THEN line_fragments(driver, loc.lines) ELSE <<>>

\* chat_completion_stream delivered "m", then the read failed with a whole
\* unterminated record in the buffer: its fragment "a" was never delivered
C35_Witness ==
    /\ failed_mid_stream /\ driver = "chat_completion_stream"
    /\ loc.cbs = <<<<109>>>>
    /\ pos = Len(body)
    /\ rest_outcome(driver, loc.buffer).frag = Some(<<97>>)

(***************************************************************************)
(* The endpoints of chat_completion_stream                                 *)
(***************************************************************************)
\* a 2xx response has been received: the call is reading it, or has read it
streaming_began == body # <<>>

\* C36: chat_completion_stream sends one request per endpoint, in order, and
\* only while the endpoints before failed to give a 2xx response. Once an
\* endpoint answered 2xx no further request is sent: the text decoded, the
\* lines, the fragments delivered and the outcome (Ok, the empty-response
\* error, a Network error) all come from that response. When every endpoint
\* failed, nothing was delivered and the error returned is that of the last
\* endpoint.
C36_EndpointFallback ==
    (driver = "chat_completion_stream" /\ access_token = "Some") =>
        /\ requests = endpoint /\ endpoint \in 1..NumEndpoints(driver)
        /\ responses <= requests
        /\ streaming_began =>
              /\ pc \in {"streaming", "done"}
              /\ response.status = 200
              /\ ~split_char => loc.received = from_utf8_lossy(SubSeq(body, 1, pos))
              /\ loc.cbs = line_fragments(driver, loc.lines) \o rest_fragment(driver, loc)
              /\ pc = "done" =>
                    \/ result = Ok(Concat(loc.cbs), None) /\ loc.flushed
                    \/ result = EmptyResponse /\ loc.flushed
                    \/ result = NetworkError /\ ~loc.flushed
        /\ (pc = "done" /\ ~streaming_began) =>
              /\ endpoint = NumEndpoints(driver)
              /\ loc.cbs = <<>>
              /\ result = last_error
              /\ result.kind \in {"Network", "Api"}
              /\ result.kind = "Api" =>
                    result = ApiError(response.status, error_text_of(response.text))

\* the first endpoint failed, the second answered 2xx and its stream was
\* delivered: two requests, the fragments of one response, Ok
C36_Witness ==
    /\ pc = "done" /\ driver = "chat_completion_stream"
    /\ requests = 2 /\ last_error.kind = "Api"
    /\ streaming_began /\ result.kind = "Ok"
    /\ loc.cbs = <<<<109>>, <<97>>>>

(***************************************************************************)
(* A callback that returns an error                                        *)
(***************************************************************************)
\* the callback of an agent call has returned its error
callback_failed ==
    /\ driver \in OrchestrateDrivers
    /\ callback.fail_at > 0 /\ Len(loc.cbs) >= callback.fail_at

\* C37: once the callback given to stream_message or stream_chat_with_docs
\* has returned an error, the call has returned that error: the failing call
\* of the callback is the last one, and the value returned carries no thread
\* id. The call returns the callback's error in no other case.
C37_CallbackFailureStops ==
    /\ callback_failed =>
          /\ pc = "done"
          /\ result = CallbackError /\ result.thread_id = None
          /\ Len(loc.cbs) = callback.fail_at
    /\ result.kind = "Callback" => callback_failed

\* stream_message: the callback failed on "a", the first of the two fragments
\* of the stream, in a line that carries a thread id
C37_Witness ==
    /\ pc = "done" /\ driver = "stream_message" /\ body = Body_A3
    /\ callback.fail_at = 1 /\ loc.cbs = <<<<97>>>>
    /\ result = CallbackError
    /\ Len(whole_stream(driver, [callback EXCEPT !.fail_at = 0], thread_id, body).cbs) = 2
    /\ line_outcome(driver, loc.lines[Len(loc.lines)]).tid # None

(***************************************************************************)
(* Ok with an empty text                                                   *)
(***************************************************************************)
\* the answer, trimmed, without its leading "Answer:", trimmed again
unlabelled(answer) == Trim(strip_label(Trim(answer)))

\* C38 as stated: the text generate_with_config returns with Ok is not empty.
C38_OkTextNonEmpty == returned_text => result.text # <<>>

\* C38, amended: when generate_with_config returns Ok the accumulated answer
\* is not empty after trimming, for the check precedes the clean-up; the text
\* returned is empty exactly when the answer is nothing but the "Answer:"
\* label or when what follows the label begins with "Query:".
C38_OkAnswerNonEmpty ==
    returned_text =>
        /\ Trim(loc.answer) # <<>>
        /\ result.text = <<>> <=>
              \/ unlabelled(loc.answer) = <<>>
              \/ StartsWith(unlabelled(loc.answer), S_Query)

\* the stream carried the fragments "Answer:" and " ", and generate_with_config
\* returned Ok with the empty text
C38_Witness ==
    /\ returned_text /\ loc.answer = S_Answer \o <<32>>
    /\ result = Ok(<<>>, None)

(***************************************************************************)
(* The credential and the model of a WatsonxClient over several calls      *)
(***************************************************************************)
\* the access tokens the token exchange may return
Tokens == {"token-1", "token-2"}
\* the arguments of WatsonxClient::with_model
ClientModels == {DEFAULT_MODEL, "another-model"}

\* one request and its response: the send fails, or a status arrives with a
\* body that deserializes or does not
HttpOutcomes ==
    {[sent |-> FALSE, status |-> 0, parsed |-> FALSE],
     [sent |-> TRUE, status |-> 500, parsed |-> FALSE],
     [sent |-> TRUE, status |-> 200, parsed |-> FALSE],
     [sent |-> TRUE, status |-> 200, parsed |-> TRUE]}

\* .send().await.map_err(Network)?; the status check; the body .map_err(Serialization)?
http_result(o, on_status) ==
    IF ~o.sent THEN NetworkError
    ELSE IF ~is_success(o.status) THEN on_status
    ELSE IF ~o.parsed THEN SerializationError
    ELSE Ok(<<>>, None)

\* a new WatsonxClient that will be asked for a batch of one request
CredentialInit ==
    /\ client = "WatsonxClient"
    /\ access_token = "None"
    /\ current_model = DEFAULT_MODEL
    /\ pc = "idle"
    /\ driver = "none"
    /\ callback = NoCallback
    /\ thread_id = None
    /\ endpoint = 0
    /\ requests = 0
    /\ last_error = NoResult
    /\ responses = 0
    /\ response = NoResponse
    /\ body = <<>>
    /\ pos = 0
    /\ loc = start_locals(None)
    /\ split_char = FALSE
    /\ expired = FALSE
    /\ result = NoResult
    /\ batch_requests = <<BatchRequest(S_p, None, None)>>
    /\ tasks = <<>>
    /\ completion_order = <<>>
    /\ batch_result = NoBatchResult
    /\ error = NoError
    /\ retryable = None
    /\ user_action = None
    /\ config = NoConfig
    /\ argument = None

call_locals == <<callback, thread_id, endpoint, last_error, response, body, pos, loc,
                 split_char, timer_vars>>

\* connect_exchange with a failed exchange dropping the token held
connect_exchange_clearing(o, token) ==
    /\ pc = "idle"
    /\ client = "WatsonxClient"
    /\ driver' = "connect"
    /\ pc' = "done"
    /\ requests' = 1
    /\ responses' = IF o.sent THEN 1 ELSE 0
    /\ result' = http_result(o, AuthenticationError)
    /\ access_token' = IF result'.kind = "Ok" THEN token ELSE "None"
    /\ UNCHANGED <<client, current_model, call_locals, batch_vars, value_vars>>

\* WatsonxClient::connect, the whole of it: the token of the response is
\* stored once the request, the status check and the deserialization are past
connect_exchange(o, token) ==
    /\ pc = "idle"
    /\ client = "WatsonxClient"
    /\ driver' = "connect"
    /\ pc' = "done"
    /\ requests' = 1
    /\ responses' = IF o.sent THEN 1 ELSE 0
    /\ result' = http_result(o, AuthenticationError)
    /\ access_token' = IF result'.kind = "Ok" THEN token ELSE access_token
    /\ UNCHANGED <<client, current_model, call_locals, batch_vars, value_vars>>

\* WatsonxClient::with_model
client_with_model(model_id) ==
    /\ pc = "idle"
    /\ client = "WatsonxClient"
    /\ current_model' = model_id
    /\ UNCHANGED <<client, access_token, pc, driver, requests, responses, result, call_locals,
                   batch_vars, value_vars>>

\* WatsonxClient::list_models, the whole of it
list_models(o) ==
    /\ pc = "idle"
    /\ client = "WatsonxClient"
    /\ driver' = "list_models"
    /\ pc' = "done"
    /\ IF access_token = "None"
         THEN result' = AuthenticationError /\ requests' = 0 /\ responses' = 0
         ELSE /\ result' = http_result(o, ApiError(o.status, "Unknown error"))
              /\ requests' = 1
              /\ responses' = IF o.sent THEN 1 ELSE 0
    /\ UNCHANGED <<client_vars, call_locals, batch_vars, value_vars>>

\* the call has returned: its locals are dropped, the client is as it left it
call_returns ==
    /\ pc = "done"
    /\ pc' = "idle"
    /\ driver' = "none"
    /\ callback' = NoCallback
    /\ thread_id' = None
    /\ endpoint' = 0
    /\ requests' = 0
    /\ last_error' = NoResult
    /\ responses' = 0
    /\ response' = NoResponse
    /\ body' = <<>>
    /\ pos' = 0
    /\ loc' = start_locals(None)
    /\ split_char' = FALSE
    /\ expired' = FALSE
    /\ result' = NoResult
    /\ tasks' = <<>>
    /\ completion_order' = <<>>
    /\ batch_result' = NoBatchResult
    /\ UNCHANGED <<client_vars, batch_requests, value_vars>>

CredentialNext ==
    \/ \E o \in HttpOutcomes : \E token \in Tokens : connect_exchange(o, token)
    \/ \E model_id \in ClientModels : client_with_model(model_id)
    \/ \E o \in HttpOutcomes : list_models(o)
    \/ \E d \in WatsonxDrivers : \E cb \in CallbacksOf(d) : start_call(d, cb, None)
    \/ send_error
    \/ \E status \in ErrorStatuses : \E t \in ErrorTexts : response_failure(status, t)
    \/ response_success(Body_K4)
    \/ \E n \in ChunkLens : recv_chunk(n)
    \/ chunk_error
    \/ timeout_elapses
    \/ end_of_stream
    \/ generate_batch
    \/ \E i \in 1..Len(tasks) : task_send(i)
    \/ \E i \in 1..Len(tasks) : task_finish(i)
    \/ \E i \in 1..Len(tasks) : task_join_error(i)
    \/ \E i \in 1..Len(tasks) : task_timeout_elapses(i)
    \/ batch_done
    \/ call_returns

CredentialSpec == CredentialInit /\ [][CredentialNext]_vars

\* the step is a connect() that returned Ok
connect_succeeds == pc = "idle" /\ driver' = "connect" /\ result'.kind = "Ok"

\* C39: a new WatsonxClient holds no token and the default model. The token
\* changes only in a connect() that returns Ok, which stores the token of the
\* exchange; a connect() that fails (the request, the status, the body)
\* leaves the token as it was; no step of a generation, streaming, batch or
\* listing call changes the token or the model, which only with_model sets.
C39_CredentialFrame ==
    /\ access_token = "None" /\ current_model = DEFAULT_MODEL
    /\ [][/\ access_token' # access_token => (connect_succeeds /\ access_token' \in Tokens)
          /\ (driver' = "connect" /\ pc = "idle" /\ result'.kind # "Ok")
                => access_token' = access_token
          /\ current_model' # current_model => (pc = "idle" /\ pc' = "idle")
          /\ (pc # "idle" \/ driver' \notin {"connect", "none"})
                => (access_token' = access_token /\ current_model' = current_model)]_vars

\* a client that holds a token was asked to connect again, the exchange
\* failed on the body, and the token is still there
C39_Witness ==
    /\ driver = "connect" /\ pc = "done"
    /\ result = SerializationError
    /\ access_token = "token-1"
    /\ current_model = "another-model"

(***************************************************************************)
(* Termination of generate_batch                                           *)
(***************************************************************************)
\* the tokio runtime runs every spawned task that can make a step, every
\* request is answered or fails, and join_all is polled once all have ended
FairBatchSpec ==
    /\ BatchSpec
    /\ WF_vars(\E i \in 1..Len(tasks) : task_send(i) \/ task_finish(i))
    /\ WF_vars(batch_done)

\* every task of the batch has ended, each once
all_tasks_ended ==
    /\ \A i \in 1..Len(tasks) : tasks[i].state \in {"finished", "join_error"}
    /\ Len(completion_order) = Len(tasks)
    /\ \A i \in 1..Len(tasks) : \E k \in 1..Len(completion_order) : completion_order[k] = i

\* C40: when every request of the batch is eventually answered or fails, a
\* generate_batch call that has spawned its tasks eventually returns; it has
\* returned Ok only once all its N tasks have ended; and for an empty list of
\* requests it returns with total = 0, successful = 0 and failed = 0, no task
\* to wait for and no request sent.
C40_BatchTerminates ==
    /\ [](batch_result.kind = "Ok" =>
            /\ pc = "done" /\ Len(tasks) = Len(batch_requests) /\ all_tasks_ended
            /\ batch_requests = <<>> =>
                  /\ batch_result.total = 0 /\ batch_result.successful = 0
                  /\ batch_result.failed = 0 /\ batch_result.results = <<>>
                  /\ requests = 0)
    /\ [](pc = "joining" => Len(tasks) = Len(batch_requests))
    /\ []((pc = "joining" /\ batch_requests = <<>>) => ENABLED batch_done)
    /\ (pc = "joining") ~> (pc = "done" /\ batch_result.kind = "Ok")

\* generate_batch returned for an empty list of requests
C40_Witness ==
    /\ pc = "done" /\ access_token = "Some" /\ batch_requests = <<>>
    /\ batch_result = BatchGenerationResult(<<>>)
    /\ batch_result.total = 0 /\ tasks = <<>>

===========================================================================
